---- MODULE Spec2Model ----
(***************************************************************************)
(* Rutaceae compiler core: the LLVM IR code generator (CodeGenVisitor of   *)
(* src/core/pipeline/codegen.py) as a state machine.  The generator walks  *)
(* an AST; the walk is modelled statement by statement, the program being  *)
(* lowered is chosen as the walk proceeds, and the activation records of   *)
(* the recursive visit_If/While/For handlers are kept on an explicit stack *)
(* (frames).  llvmlite's IRBuilder is modelled by what the generator       *)
(* relies on: a block holds a list of terminators, placing a terminator in *)
(* a terminated block fails llvmlite's assertion, a store or a call whose  *)
(* operand types do not fit raises llvmlite's TypeError.                   *)
(***************************************************************************)
EXTENDS Integers, Sequences, FiniteSets, TLC

\* ---------------------------------------------------------------- bounds
MaxFuncs == 2
MaxBlocks == 7
MaxDepth == 2
MaxGlobals == 6

VarNames == {"x"}
FuncNames == {"f", "g"}
NoFunc == "h"

VARIABLES
    func_defs,        \* ProgramNode.func_defs: the functions of the program
    phase,            \* position of visit_ProgramNode
    idx,              \* index of the function being declared / defined
    functions,        \* self.functions: name -> ir.Function
    scope_stack,      \* self.scope_stack: list of name -> slot
    const_variables,  \* self.const_variables
    loop_stack,       \* self.loop_stack: list of <<continue, break>> blocks
    blocks,           \* the basic blocks of the module, in creation order
    cur,              \* self.builder.block (index into blocks, 0 = no builder)
    frames,           \* open visit_IfStmtNode / While / For activations
    node,             \* the AST node whose handler ran last
    emitted,          \* the instructions that handler inserted
    err,              \* the message of the exception raised, "" if none
    globals,          \* self.module.globals, in creation order
    call              \* AstBuilder: the callback that ran last and its items

vars == <<func_defs, phase, idx, functions, scope_stack, const_variables,
          loop_stack, blocks, cur, frames, node, emitted, err, globals, call>>

\* ------------------------------------------------------------- IR types
I32 == "i32"
I1 == "i1"
DOUBLE == "double"
I8PTR == "i8*"
VOID == "void"

_get_llvm_type(type_str) ==
    CASE type_str = "int" -> I32
      [] type_str = "float" -> DOUBLE
      [] type_str = "bool" -> I1
      [] type_str = "string" -> I8PTR
      [] type_str = "void" -> VOID
      [] OTHER -> I32

\* ----------------------------------------------------- expression nodes
NoExpr == [kind |-> "None", value |-> "", op |-> "", args |-> <<>>]
LiteralExprNode == [kind |-> "LiteralExprNode", value |-> "int", op |-> "", args |-> <<>>]
ValueNode(v) == [kind |-> "ValueNode", value |-> v, op |-> "", args |-> <<>>]
IdentifierExprNode(n) == [kind |-> "IdentifierExprNode", value |-> n, op |-> "", args |-> <<>>]
CallExprNode(n, a) == [kind |-> "CallExprNode", value |-> n, op |-> "", args |-> a]
BinaryOpNode(o, l, r) == [kind |-> "BinaryOpNode", value |-> "", op |-> o, args |-> <<l, r>>]
\* value is the target type of the cast
CastExprNode(t, e) == [kind |-> "CastExprNode", value |-> t, op |-> "", args |-> <<e>>]

ArithOps == {"+", "-", "*", "/", "%"}
CmpOps == {"==", "!=", "<", "<=", ">", ">="}
LogicOps == {"&&", "||"}
BinOps == ArithOps \cup CmpOps \cup LogicOps

\* an instruction: opcode, comparison predicate, IR types of its operands
Instr(o, p, a, b) == [op |-> o, pred |-> p, lt |-> a, rt |-> b]

\* result of visiting an expression: the exception raised (if any), the IR
\* type of the value, and the instructions inserted on the way
Value(t, is) == [err |-> "", type |-> t, instrs |-> is]
Raise(m, is) == [err |-> m, type |-> VOID, instrs |-> is]

\* ------------------------------------------------------- error messages
ErrUndefinedVariable == "Undefined variable"
ErrUndefinedFunction == "Undefined function"
ErrArgCount == "Function expects a different number of arguments"
ErrBinaryMismatch == "Type mismatch in binary operation"
ErrUnknownBinary == "Unknown binary operator"
ErrCast == "Cannot cast type"
ErrRedeclared == "Variable is already declared in this scope"
ErrAssignConst == "Cannot assign to const variable"
ErrAssignUndefined == "Assignment to undefined variable"
ErrIncConst == "Cannot increment const variable"
ErrIncUndefined == "Increment of undefined variable"
ErrDecConst == "Cannot decrement const variable"
ErrDecUndefined == "Decrement of undefined variable"
ErrCompoundUndefined == "Compound assignment to undefined variable"
ErrBreakOutside == "Break statement outside of loop"
ErrContinueOutside == "Continue statement outside of loop"
\* raised by llvmlite, not by the generator
ErrTerminated == "AssertionError: block is already terminated"
ErrStoreMismatch == "TypeError: cannot store: mismatching types"
ErrCallArgMismatch == "TypeError: type of call argument mismatch"
ErrOperandMismatch == "ValueError: operands must be the same type"
ErrDuplicatedName == "DuplicatedNameError"
ErrIndex == "IndexError: list index out of range"

\* ------------------------------------------------------------- scopes
NoSlot == [type |-> "None", decl |-> "", func |-> ""]
Slot(t, d, f) == [type |-> t, decl |-> d, func |-> f]

lookup_variable(ss, name) ==
    LET hits == {i \in 1..Len(ss) : name \in DOMAIN ss[i]}
    IN  IF hits = {} THEN NoSlot
        ELSE ss[CHOOSE i \in hits : \A j \in hits : j <= i][name]

\* ------------------------------------------------- expression lowering
\* a promotion that forgets the bool operand on the right of an int
promote_left_only(left_type, right_type) ==
    IF left_type # right_type THEN
        IF left_type = I32 /\ right_type = DOUBLE THEN
            [err |-> "", left |-> DOUBLE, right |-> right_type,
             instrs |-> <<Instr("sitofp", "left", I32, DOUBLE)>>]
        ELSE IF left_type = DOUBLE /\ right_type = I32 THEN
            [err |-> "", left |-> left_type, right |-> DOUBLE,
             instrs |-> <<Instr("sitofp", "right", I32, DOUBLE)>>]
        ELSE IF left_type = I1 /\ right_type = I32 THEN
            [err |-> "", left |-> I32, right |-> right_type,
             instrs |-> <<Instr("zext", "left", I1, I32)>>]
        ELSE [err |-> ErrBinaryMismatch, left |-> left_type, right |-> right_type,
              instrs |-> <<>>]
    ELSE [err |-> "", left |-> left_type, right |-> right_type, instrs |-> <<>>]

\* a promotion that also converts a bool operand next to a float
promote_bool_to_float(left_type, right_type) ==
    IF left_type # right_type THEN
        IF left_type \in {I32, I1} /\ right_type = DOUBLE THEN
            [err |-> "", left |-> DOUBLE, right |-> right_type,
             instrs |-> <<Instr("sitofp", "left", left_type, DOUBLE)>>]
        ELSE IF left_type = DOUBLE /\ right_type \in {I32, I1} THEN
            [err |-> "", left |-> left_type, right |-> DOUBLE,
             instrs |-> <<Instr("sitofp", "right", right_type, DOUBLE)>>]
        ELSE IF left_type = I1 /\ right_type = I32 THEN
            [err |-> "", left |-> I32, right |-> right_type,
             instrs |-> <<Instr("zext", "left", I1, I32)>>]
        ELSE IF left_type = I32 /\ right_type = I1 THEN
            [err |-> "", left |-> left_type, right |-> I32,
             instrs |-> <<Instr("zext", "right", I1, I32)>>]
        ELSE [err |-> ErrBinaryMismatch, left |-> left_type, right |-> right_type,
              instrs |-> <<>>]
    ELSE [err |-> "", left |-> left_type, right |-> right_type, instrs |-> <<>>]

\* visit_BinaryOpNode, the implicit promotion of operands of different types
promote(left_type, right_type) ==
    IF left_type # right_type THEN
        IF left_type = I32 /\ right_type = DOUBLE THEN
            [err |-> "", left |-> DOUBLE, right |-> right_type,
             instrs |-> <<Instr("sitofp", "left", I32, DOUBLE)>>]
        ELSE IF left_type = DOUBLE /\ right_type = I32 THEN
            [err |-> "", left |-> left_type, right |-> DOUBLE,
             instrs |-> <<Instr("sitofp", "right", I32, DOUBLE)>>]
        ELSE IF left_type = I1 /\ right_type = I32 THEN
            [err |-> "", left |-> I32, right |-> right_type,
             instrs |-> <<Instr("zext", "left", I1, I32)>>]
        ELSE IF left_type = I32 /\ right_type = I1 THEN
            [err |-> "", left |-> left_type, right |-> I32,
             instrs |-> <<Instr("zext", "right", I1, I32)>>]
        ELSE [err |-> ErrBinaryMismatch, left |-> left_type, right |-> right_type,
              instrs |-> <<>>]
    ELSE [err |-> "", left |-> left_type, right |-> right_type, instrs |-> <<>>]

\* visit_BinaryOpNode, the instruction selected by the operator
select(op, lt, rt) ==
    LET is_float == lt = DOUBLE \/ rt = DOUBLE
    IN  CASE op = "+" -> Value(lt, <<Instr(IF is_float THEN "fadd" ELSE "add", "", lt, rt)>>)
          [] op = "-" -> Value(lt, <<Instr(IF is_float THEN "fsub" ELSE "sub", "", lt, rt)>>)
          [] op = "*" -> Value(lt, <<Instr(IF is_float THEN "fmul" ELSE "mul", "", lt, rt)>>)
          [] op = "/" -> Value(lt, <<Instr(IF is_float THEN "fdiv" ELSE "sdiv", "", lt, rt)>>)
          [] op = "%" -> Value(lt, <<Instr(IF is_float THEN "frem" ELSE "srem", "", lt, rt)>>)
          [] op \in CmpOps ->
                Value(I1, <<Instr(IF is_float THEN "fcmp_ordered" ELSE "icmp_signed", op, lt, rt)>>)
          [] op = "&&" -> Value(lt, <<Instr("and", "", lt, rt)>>)
          [] op = "||" -> Value(lt, <<Instr("or", "", lt, rt)>>)
          [] OTHER -> Raise(ErrUnknownBinary, <<>>)

\* visit_BinaryOpNode once both operands have been visited
BinaryOp(op, left_type, right_type) ==
    LET p == promote(left_type, right_type)
    IN  IF p.err # "" THEN Raise(p.err, p.instrs)
        ELSE LET r == select(op, p.left, p.right)
             IN  [r EXCEPT !.instrs = p.instrs \o @]

visit_ValueNode(e) ==
    CASE e.value = "bool" -> Value(I1, <<>>)
      [] e.value = "float" -> Value(DOUBLE, <<>>)
      [] e.value = "int" -> Value(I32, <<>>)
      [] OTHER -> Value(I8PTR, <<Instr("bitcast", "", "[N x i8]*", "")>>)

visit_IdentifierExprNode(e, ss) ==
    LET var_ptr == lookup_variable(ss, e.value)
    IN  IF var_ptr = NoSlot THEN Raise(ErrUndefinedVariable, <<>>)
        ELSE Value(var_ptr.type, <<Instr("load", "", var_ptr.type, "")>>)

RECURSIVE visit(_, _, _)
RECURSIVE visit_args(_, _, _, _)

\* the list comprehension of visit_CallExprNode: arguments left to right,
\* stopping at the first one that raises
visit_args(args, ss, fns, acc) ==
    IF args = <<>> THEN acc
    ELSE LET r == visit(Head(args), ss, fns)
         IN  IF r.err # "" THEN [err |-> r.err, types |-> acc.types, instrs |-> acc.instrs \o r.instrs]
             ELSE visit_args(Tail(args), ss, fns,
                             [err |-> "", types |-> Append(acc.types, r.type),
                              instrs |-> acc.instrs \o r.instrs])

\* a call that never compares the number of arguments with the parameters
visit_CallExprNode_uncounted(e, ss, fns) ==
    IF e.value \notin DOMAIN fns THEN Raise(ErrUndefinedFunction, <<>>)
    ELSE LET func == fns[e.value]
             a == visit_args(e.args, ss, fns, [err |-> "", types |-> <<>>, instrs |-> <<>>])
         IN  IF a.err # "" THEN Raise(a.err, a.instrs)
             ELSE IF a.types # func.args THEN Raise(ErrCallArgMismatch, a.instrs)
             ELSE Value(func.ret, Append(a.instrs, Instr("call", e.value, "", "")))

visit_CallExprNode(e, ss, fns) ==
    IF e.value \notin DOMAIN fns THEN Raise(ErrUndefinedFunction, <<>>)
    ELSE LET func == fns[e.value]
             a == visit_args(e.args, ss, fns, [err |-> "", types |-> <<>>, instrs |-> <<>>])
         IN  IF a.err # "" THEN Raise(a.err, a.instrs)
             ELSE IF Len(a.types) # Len(func.args) THEN Raise(ErrArgCount, a.instrs)
             ELSE IF a.types # func.args THEN Raise(ErrCallArgMismatch, a.instrs)
             ELSE Value(func.ret, Append(a.instrs, Instr("call", e.value, "", "")))

_get_type_name(llvm_type) ==
    CASE llvm_type = I32 -> "int"
      [] llvm_type = DOUBLE -> "float"
      [] llvm_type = I1 -> "bool"
      [] llvm_type = I8PTR -> "string"
      [] OTHER -> llvm_type

\* a conversion that takes a bool for a signed integer on its way to float
convert_signed(target_type, type) ==
    CASE target_type = "int" /\ type = DOUBLE -> Value(I32, <<Instr("fptosi", "", DOUBLE, I32)>>)
      [] target_type = "int" /\ type = I1 -> Value(I32, <<Instr("zext", "", I1, I32)>>)
      [] target_type = "float" /\ type = I32 -> Value(DOUBLE, <<Instr("sitofp", "", I32, DOUBLE)>>)
      [] target_type = "float" /\ type = I1 -> Value(DOUBLE, <<Instr("sitofp", "", I1, DOUBLE)>>)
      [] target_type = "bool" /\ type = I32 -> Value(I1, <<Instr("icmp_signed", "!=", I32, I32)>>)
      [] target_type = "bool" /\ type = DOUBLE ->
            Value(I1, <<Instr("fcmp_ordered", "!=", DOUBLE, DOUBLE)>>)
      [] OTHER -> Raise(ErrCast, <<>>)

\* visit_CastExprNode, the conversion of a value of another type
convert(target_type, type) ==
    CASE target_type = "int" /\ type = DOUBLE -> Value(I32, <<Instr("fptosi", "", DOUBLE, I32)>>)
      [] target_type = "int" /\ type = I1 -> Value(I32, <<Instr("zext", "", I1, I32)>>)
      [] target_type = "float" /\ type = I32 -> Value(DOUBLE, <<Instr("sitofp", "", I32, DOUBLE)>>)
      [] target_type = "float" /\ type = I1 -> Value(DOUBLE, <<Instr("uitofp", "", I1, DOUBLE)>>)
      [] target_type = "bool" /\ type = I32 -> Value(I1, <<Instr("icmp_signed", "!=", I32, I32)>>)
      [] target_type = "bool" /\ type = DOUBLE ->
            Value(I1, <<Instr("fcmp_ordered", "!=", DOUBLE, DOUBLE)>>)
      [] OTHER -> Raise(ErrCast, <<>>)

visit_CastExprNode(e, ss, fns) ==
    LET val == visit(e.args[1], ss, fns)
    IN  IF val.err # "" THEN val
        ELSE IF _get_type_name(val.type) = e.value THEN val
        ELSE [convert(e.value, val.type) EXCEPT !.instrs = val.instrs \o @]

visit_BinaryOpNode(e, ss, fns) ==
    LET left_val == visit(e.args[1], ss, fns)
    IN  IF left_val.err # "" THEN left_val
        ELSE LET right_val == visit(e.args[2], ss, fns)
                 sofar == left_val.instrs \o right_val.instrs
             IN  IF right_val.err # "" THEN Raise(right_val.err, sofar)
                 ELSE LET r == BinaryOp(e.op, left_val.type, right_val.type)
                      IN  [r EXCEPT !.instrs = sofar \o @]

visit(e, ss, fns) ==
    CASE e.kind = "LiteralExprNode" -> Value(I32, <<>>)
      [] e.kind = "ValueNode" -> visit_ValueNode(e)
      [] e.kind = "IdentifierExprNode" -> visit_IdentifierExprNode(e, ss)
      [] e.kind = "CallExprNode" -> visit_CallExprNode(e, ss, fns)
      [] e.kind = "BinaryOpNode" -> visit_BinaryOpNode(e, ss, fns)
      [] e.kind = "CastExprNode" -> visit_CastExprNode(e, ss, fns)

\* --------------------------------------------------- generator state
\* the fields of one CodeGenVisitor, as a record the handlers transform;
\* value is the type of the LLVM value the last visit returned, err the
\* exception in flight: once it is set every later step is skipped
Gen == [functions |-> functions, scope_stack |-> scope_stack,
        const_variables |-> const_variables, loop_stack |-> loop_stack,
        blocks |-> blocks, cur |-> cur, globals |-> globals,
        emitted |-> <<>>, err |-> "", value |-> "None"]

Put(m, k, v) == [n \in DOMAIN m \cup {k} |-> IF n = k THEN v ELSE m[n]]

raised(g) == g.err # ""
emit(g, is) == IF raised(g) THEN g ELSE [g EXCEPT !.emitted = @ \o is]
throw(g, m) == IF raised(g) THEN g ELSE [g EXCEPT !.err = m]

variables(g) == g.scope_stack[Len(g.scope_stack)]
push_scope(g) == [g EXCEPT !.scope_stack = Append(@, <<>>)]
pop_scope(g) == [g EXCEPT !.scope_stack = SubSeq(@, 1, Len(@) - 1)]
bind(g, name, slot) ==
    IF raised(g) THEN g
    ELSE [g EXCEPT !.scope_stack[Len(g.scope_stack)] = Put(@, name, slot)]

\* ------------------------------------------------------ blocks, builder
Block(n, f) == [name |-> n, func |-> f, term |-> <<>>]
Term(o, t) == [op |-> o, targets |-> t]

is_terminated(g) == g.blocks[g.cur].term # <<>>
append_basic_block(g, n) ==
    IF raised(g) THEN g
    ELSE [g EXCEPT !.blocks = Append(@, Block(n, g.blocks[g.cur].func))]
position_at_end(g, b) == IF raised(g) THEN g ELSE [g EXCEPT !.cur = b]

\* IRBuilder.ret / branch / cbranch: llvmlite asserts the block is open
set_terminator(g, t) ==
    IF raised(g) THEN g
    ELSE IF is_terminated(g) THEN throw(g, ErrTerminated)
    ELSE [g EXCEPT !.blocks[g.cur].term = Append(@, t),
                   !.emitted = Append(@, Instr(t.op, "", "", ""))]

\* a store that takes any value for any slot
store_unchecked(g, value_type, slot) ==
    emit(g, <<Instr("store", "", value_type, slot.type)>>)

\* IRBuilder.store: llvmlite checks the value against the slot's pointee
store(g, value_type, slot) ==
    IF slot.type # value_type THEN throw(g, ErrStoreMismatch)
    ELSE emit(g, <<Instr("store", "", value_type, slot.type)>>)

\* ------------------------------------------------------ module globals
\* a global's name: an identifier, or a prefix with the number formatted
\* after it (n = -1 when the name is an identifier)
Name(id) == [base |-> id, n |-> -1]
Numbered(prefix, k) == [base |-> prefix, n |-> k]

\* ir.Function / ir.GlobalVariable, as module.globals holds them
Function(id, ret, args, var_arg) ==
    [name |-> Name(id), kind |-> "function", ret |-> ret, args |-> args,
     var_arg |-> var_arg, initializer |-> ""]
GlobalVariable(name, initializer) ==
    [name |-> name, kind |-> "variable", ret |-> VOID, args |-> <<>>,
     var_arg |-> FALSE, initializer |-> initializer]

global_names(gs) == {gs[i].name : i \in 1..Len(gs)}

\* a name numbered by the string literals alone
global_name_by_literals(prefix, gs) ==
    Numbered(prefix, Cardinality({i \in 1..Len(gs) : gs[i].name.base = ".str."}))

\* f".str.{len(self.module.globals)}", f".fstr.{len(self.module.globals)}"
global_name(prefix, gs) == Numbered(prefix, Len(gs))

\* Module.add_global: llvmlite refuses a name the module already holds
add_global(g, gv) ==
    IF raised(g) THEN g
    ELSE IF gv.name \in global_names(g.globals) THEN throw(g, ErrDuplicatedName)
    ELSE [g EXCEPT !.globals = Append(@, gv)]

\* visit_ValueNode on a string: one internal constant per literal visited,
\* created right before the bitcast that yields its address
IsLiteralAddress(i) == i.op = "bitcast"
RECURSIVE string_globals(_, _)
string_globals(gs, is) ==
    IF is = <<>> THEN gs
    ELSE string_globals(IF IsLiteralAddress(Head(is))
                        THEN Append(gs, GlobalVariable(global_name(".str.", gs), "str"))
                        ELSE gs,
                        Tail(is))

\* the result r of visiting an expression, taken into the generator: its
\* instructions are inserted at the builder, its string constants are added
\* to the module, its exception propagates
returned(g, r) ==
    [g EXCEPT !.emitted = @ \o r.instrs, !.err = r.err, !.value = r.type,
              !.globals = string_globals(@, r.instrs)]

\* self.visit(expr) inside a handler
eval(g, e) == IF raised(g) THEN g ELSE returned(g, visit(e, g.scope_stack, g.functions))

\* ---------------------------------------------------------- functions
param_types(fd) == [i \in 1..Len(fd.params) |-> _get_llvm_type(fd.params[i].type)]

\* self.functions[node.identifier] = func
register(g, fd) ==
    IF raised(g) THEN g
    ELSE [g EXCEPT !.functions =
            Put(@, fd.identifier, [ret |-> _get_llvm_type(fd.type), args |-> param_types(fd)])]

_declare_function(g, fd) ==
    register(add_global(g, Function(fd.identifier, _get_llvm_type(fd.type),
                                    param_types(fd), FALSE)),
             fd)

\* a parameter whose slot is allocated and filled but never bound
alloc_param_unbound(g, f, param) ==
    store(emit(g, <<Instr("alloca", "", _get_llvm_type(param.type), "")>>),
          _get_llvm_type(param.type), Slot(_get_llvm_type(param.type), "param", f))

\* _define_function, one parameter: its slot is allocated, bound and filled
alloc_param(g, f, param) ==
    bind(store(emit(g, <<Instr("alloca", "", _get_llvm_type(param.type), "")>>),
               _get_llvm_type(param.type), Slot(_get_llvm_type(param.type), "param", f)),
         param.name, Slot(_get_llvm_type(param.type), "param", f))

RECURSIVE alloc_params(_, _, _)
alloc_params(g, f, params) ==
    IF params = <<>> THEN g
    ELSE alloc_params(alloc_param(g, f, Head(params)), f, Tail(params))

\* _define_function up to the visit of the body
_define_function_enter(g, fd) ==
    alloc_params(push_scope([g EXCEPT !.blocks = Append(@, Block("entry", fd.identifier)),
                                      !.cur = Len(g.blocks) + 1]),
                 fd.identifier, fd.params)

\* a _define_function that closes an open block with a return of its own
_define_function_exit_returning(g) ==
    pop_scope(IF is_terminated(g) THEN g ELSE set_terminator(g, Term("ret", <<>>)))

\* a _define_function that returns without popping its scope
_define_function_exit_unpopped(g) == g

\* _define_function after the visit of the body
_define_function_exit(g) == pop_scope(g)

\* -------------------------------------------------------------- print
\* printf = self.module.get_global("printf"), created on KeyError
get_global(gs, id) == gs[CHOOSE i \in 1..Len(gs) : gs[i].name = Name(id)]
declare_printf(g) ==
    IF raised(g) THEN g
    ELSE IF Name("printf") \in global_names(g.globals) THEN g
    ELSE add_global(g, Function("printf", I32, <<I8PTR>>, TRUE))

\* a specifier chosen as if every value were an integer
base_format_integer(type) == "%d"

\* the specifier for a value of the given IR type
base_format(type) ==
    CASE type = I8PTR -> "%s"
      [] type = I1 -> "%d"
      [] type = I32 -> "%d"
      [] type = DOUBLE -> "%f"
      [] OTHER -> "%d"

\* format_str without its closing NUL
format_str(type, terminator) == base_format(type) \o terminator

\* the format string of the value last visited, as a global of its own
format_global(g, terminator) ==
    IF raised(g) THEN g
    ELSE add_global(g, GlobalVariable(global_name(".fstr.", g.globals),
                                      format_str(g.value, terminator)))

\* IRBuilder.call: llvmlite compares each declared parameter type with the
\* argument in its place; the call names its callee and its format string
builder_call(g, callee, args, fmt) ==
    IF raised(g) THEN g
    ELSE IF Len(callee.args) > Len(args) THEN throw(g, ErrIndex)
    ELSE IF \E i \in 1..Len(callee.args) : callee.args[i] # args[i]
         THEN throw(g, ErrCallArgMismatch)
    ELSE emit(g, <<Instr("call", callee.name.base, fmt, args[Len(args)])>>)

\* fmt_arg = bitcast(global_format_str); builder.call(printf, [fmt_arg, expr_val])
call_printf(g) ==
    IF raised(g) THEN g
    ELSE builder_call(emit(g, <<Instr("bitcast", "", "[N x i8]*", "")>>),
              get_global(g.globals, "printf"), <<I8PTR, g.value>>,
              g.globals[Len(g.globals)].initializer)

\* one value printed: its format string is created, then printf is called
print_value(g, terminator) == call_printf(format_global(g, terminator))

\* the loop over node.expressions: a space after each but the last
RECURSIVE print_each(_, _)
print_each(g, expressions) ==
    IF expressions = <<>> THEN g
    ELSE print_each(print_value(eval(g, Head(expressions)),
                                IF Len(expressions) = 1 THEN "\n" ELSE " "),
                    Tail(expressions))

visit_PrintStmtNode(g, n) ==
    IF Len(n.expressions) = 1 THEN print_value(declare_printf(eval(g, n.expr)), "\n")
    ELSE print_each(declare_printf(g), n.expressions)

\* --------------------------------------------------------- statements
visit_ReturnStmtNode(g, n) == set_terminator(eval(g, n.expr), Term("ret", <<>>))

\* visit_DeclarationStmtNode, the type inferred from the initializer's value
inferred_type(t) == IF t \in {I1, DOUBLE, I8PTR, I32} THEN t ELSE I32

\* visit_DeclarationStmtNode, the type declared without initializer
declared_type(type) ==
    CASE type = "int" -> I32
      [] type = "float" -> DOUBLE
      [] type = "string" -> I8PTR
      [] type = "bool" -> I1
      [] OTHER -> I32

\* visit_DeclarationStmtNode, the end of the initialized branch: a const
\* declaration adds its name to the const set
add_const(g, n) ==
    IF raised(g) \/ ~n.is_const THEN g
    ELSE [g EXCEPT !.const_variables = @ \cup {n.identifier}]

\* a declaration whose slot takes the type of the declared tag although an
\* initializer is given
declare_initialized_by_tag(g, n) ==
    LET slot == Slot(declared_type(n.type), IF n.is_const THEN "const" ELSE "let",
                     g.blocks[g.cur].func)
    IN  add_const(store(bind(emit(g, <<Instr("alloca", "", slot.type, "")>>),
                             n.identifier, slot),
                        g.value, slot),
                  n)

\* visit_DeclarationStmtNode once the initializer has been visited (g.value):
\* the slot is allocated and bound, the value stored, the name made const
declare_initialized(g, n) ==
    LET slot == Slot(inferred_type(g.value), IF n.is_const THEN "const" ELSE "let",
                     g.blocks[g.cur].func)
    IN  add_const(store(bind(emit(g, <<Instr("alloca", "", slot.type, "")>>),
                             n.identifier, slot),
                        g.value, slot),
                  n)

\* visit_DeclarationStmtNode without initializer
declare_default(g, n) ==
    bind(emit(g, <<Instr("alloca", "", declared_type(n.type), "")>>), n.identifier,
         Slot(declared_type(n.type), "let", g.blocks[g.cur].func))

\* a declaration that evaluates its initializer before looking for an
\* earlier declaration of the name
visit_DeclarationStmtNode_late_check(g, n) ==
    IF n.val # NoExpr THEN
        LET h == eval(g, n.val)
        IN  IF raised(h) THEN h
            ELSE IF n.identifier \in DOMAIN variables(g) THEN throw(h, ErrRedeclared)
            ELSE declare_initialized(h, n)
    ELSE IF n.identifier \in DOMAIN variables(g) THEN throw(g, ErrRedeclared)
    ELSE declare_default(g, n)

visit_DeclarationStmtNode(g, n) ==
    IF n.identifier \in DOMAIN variables(g) THEN throw(g, ErrRedeclared)
    ELSE IF n.val # NoExpr THEN declare_initialized(eval(g, n.val), n)
    ELSE declare_default(g, n)

\* builder.store(new_val, var_ptr) of the value the last visit returned
store_value(g, var_ptr) == IF raised(g) THEN g ELSE store(g, g.value, var_ptr)

\* an assignment that forgets the const check
visit_AssignmentStmtNode_unchecked(g, n) ==
    LET var_ptr == lookup_variable(g.scope_stack, n.identifier)
    IN  IF var_ptr = NoSlot THEN throw(g, ErrAssignUndefined)
        ELSE store_value(eval(g, n.expr), var_ptr)

visit_AssignmentStmtNode(g, n) ==
    IF n.identifier \in g.const_variables THEN throw(g, ErrAssignConst)
    ELSE LET var_ptr == lookup_variable(g.scope_stack, n.identifier)
         IN  IF var_ptr = NoSlot THEN throw(g, ErrAssignUndefined)
             ELSE store_value(eval(g, n.expr), var_ptr)

\* IRBuilder.add / fadd / ...: llvmlite checks that the operand types agree
binop(g, opname, lt, rt) ==
    IF lt # rt THEN throw(g, ErrOperandMismatch)
    ELSE emit(g, <<Instr(opname, "", lt, rt)>>)

visit_IncrementStmtNode(g, n) ==
    IF n.identifier \in g.const_variables THEN throw(g, ErrIncConst)
    ELSE LET var_ptr == lookup_variable(g.scope_stack, n.identifier)
         IN  IF var_ptr = NoSlot THEN throw(g, ErrIncUndefined)
             ELSE store(binop(emit(g, <<Instr("load", "", var_ptr.type, "")>>),
                              IF var_ptr.type = DOUBLE THEN "fadd" ELSE "add",
                              var_ptr.type, var_ptr.type),
                        var_ptr.type, var_ptr)

visit_DecrementStmtNode(g, n) ==
    IF n.identifier \in g.const_variables THEN throw(g, ErrDecConst)
    ELSE LET var_ptr == lookup_variable(g.scope_stack, n.identifier)
         IN  IF var_ptr = NoSlot THEN throw(g, ErrDecUndefined)
             ELSE store(binop(emit(g, <<Instr("load", "", var_ptr.type, "")>>),
                              IF var_ptr.type = DOUBLE THEN "fsub" ELSE "sub",
                              var_ptr.type, var_ptr.type),
                        var_ptr.type, var_ptr)

\* visit_CompoundAssignStmtNode, the instruction of the operator
compound_op(operator, is_float) ==
    CASE operator = "+=" -> IF is_float THEN "fadd" ELSE "add"
      [] operator = "-=" -> IF is_float THEN "fsub" ELSE "sub"
      [] operator = "*=" -> IF is_float THEN "fmul" ELSE "mul"
      [] operator = "/=" -> IF is_float THEN "fdiv" ELSE "sdiv"
      [] operator = "%=" -> IF is_float THEN "frem" ELSE "srem"

\* visit_CompoundAssignStmtNode once the right-hand side has been visited
\* (g.value): the operation on the current value, and the store
compound(g, n, var_ptr) ==
    store(binop(g, compound_op(n.operator, var_ptr.type = DOUBLE \/ g.value = DOUBLE),
                var_ptr.type, g.value),
          var_ptr.type, var_ptr)

visit_CompoundAssignStmtNode(g, n) ==
    IF n.identifier \in g.const_variables THEN throw(g, ErrAssignConst)
    ELSE LET var_ptr == lookup_variable(g.scope_stack, n.identifier)
         IN  IF var_ptr = NoSlot THEN throw(g, ErrCompoundUndefined)
             ELSE compound(eval(emit(g, <<Instr("load", "", var_ptr.type, "")>>), n.expr),
                           n, var_ptr)

\* a break that leaves the outermost loop instead of the nearest one
visit_BreakStmtNode_outermost(g) ==
    IF g.loop_stack = <<>> THEN throw(g, ErrBreakOutside)
    ELSE LET break_block == g.loop_stack[1][2]
         IN  set_terminator(g, Term("br", <<break_block>>))

visit_BreakStmtNode(g) ==
    IF g.loop_stack = <<>> THEN throw(g, ErrBreakOutside)
    ELSE LET break_block == g.loop_stack[Len(g.loop_stack)][2]
         IN  set_terminator(g, Term("br", <<break_block>>))

\* a continue that takes the break target of the loop
visit_ContinueStmtNode_exit(g) ==
    IF g.loop_stack = <<>> THEN throw(g, ErrContinueOutside)
    ELSE set_terminator(g, Term("br", <<g.loop_stack[Len(g.loop_stack)][2]>>))

visit_ContinueStmtNode(g) ==
    IF g.loop_stack = <<>> THEN throw(g, ErrContinueOutside)
    ELSE LET continue_block == g.loop_stack[Len(g.loop_stack)][1]
         IN  set_terminator(g, Term("br", <<continue_block>>))

\* ------------------------------------------------------- control flow
\* the activation record of a visit_IfStmtNode / While / For whose body is
\* being visited: the handler's local variables
NoFrame == [kind |-> "", stage |-> "", then_block |-> 0, merge_block |-> 0, else_block |-> 0,
            loop_condition |-> 0, loop_body |-> 0, loop_update |-> 0, loop_exit |-> 0]
IfFrame(t, m, e) ==
    [NoFrame EXCEPT !.kind = "if", !.stage = "then", !.then_block = t, !.merge_block = m,
                    !.else_block = e]
WhileFrame(c, b, x) ==
    [NoFrame EXCEPT !.kind = "while", !.stage = "body", !.loop_condition = c,
                    !.loop_body = b, !.loop_exit = x]
ForFrame(c, b, u, x) ==
    [NoFrame EXCEPT !.kind = "for", !.stage = "body", !.loop_condition = c,
                    !.loop_body = b, !.loop_update = u, !.loop_exit = x]

\* the blocks each handler appends, in its order of append_basic_block
if_blocks(g, n) ==
    IfFrame(Len(g.blocks) + 1, Len(g.blocks) + 2, IF n.has_else THEN Len(g.blocks) + 3 ELSE 0)
while_blocks(g) == WhileFrame(Len(g.blocks) + 1, Len(g.blocks) + 2, Len(g.blocks) + 3)
for_blocks(g) ==
    ForFrame(Len(g.blocks) + 1, Len(g.blocks) + 2, Len(g.blocks) + 3, Len(g.blocks) + 4)

\* the conversion of the condition just visited to i1, shared by if, while
\* and for
to_condition(g) ==
    IF g.value # I1 THEN emit(g, <<Instr("icmp_signed", "!=", g.value, g.value)>>) ELSE g

\* a join that branches without testing for a terminator
branch_always(g, target) ==
    IF raised(g) THEN g ELSE set_terminator(g, Term("br", <<target>>))

\* "if not self.builder.block.is_terminated: self.builder.branch(target)"
branch_if_open(g, target) ==
    IF raised(g) \/ is_terminated(g) THEN g ELSE set_terminator(g, Term("br", <<target>>))

push_loop(g, targets) == IF raised(g) THEN g ELSE [g EXCEPT !.loop_stack = Append(@, targets)]

\* a pop that empties the loop-target stack
pop_loop_all(g) == IF raised(g) THEN g ELSE [g EXCEPT !.loop_stack = <<>>]
pop_loop(g) == IF raised(g) THEN g ELSE [g EXCEPT !.loop_stack = SubSeq(@, 1, Len(@) - 1)]

\* visit_IfStmtNode once the condition has been visited: the blocks, the
\* conditional branch, and the builder moved to the then block
if_branch(g, n, fr) ==
    position_at_end(
        set_terminator(
            IF n.has_else
            THEN append_basic_block(append_basic_block(append_basic_block(
                     g, "if.then"), "if.merge"), "if.else")
            ELSE append_basic_block(append_basic_block(g, "if.then"), "if.merge"),
            Term("cbranch", <<fr.then_block,
                              IF n.has_else THEN fr.else_block ELSE fr.merge_block>>)),
        fr.then_block)

\* visit_IfStmtNode up to the visit of the then block
visit_IfStmtNode_enter(g, n) ==
    if_branch(to_condition(eval(g, n.condition)), n, if_blocks(g, n))

\* visit_IfStmtNode from the end of the then block to the visit of the else
\* block, or to the end of the handler when there is no else block
visit_IfStmtNode_then_exit(g, fr) ==
    position_at_end(branch_if_open(g, fr.merge_block),
                    IF fr.else_block # 0 THEN fr.else_block ELSE fr.merge_block)

\* visit_IfStmtNode after the visit of the else block
visit_IfStmtNode_else_exit(g, fr) ==
    position_at_end(branch_if_open(g, fr.merge_block), fr.merge_block)

\* visit_WhileStmtNode up to the visit of the condition: the blocks, the
\* loop context, the branch into the condition block
while_header(g, fr) ==
    position_at_end(
        set_terminator(
            push_loop(append_basic_block(append_basic_block(append_basic_block(
                          g, "while.condition"), "while.body"), "while.exit"),
                      <<fr.loop_condition, fr.loop_exit>>),
            Term("br", <<fr.loop_condition>>)),
        fr.loop_condition)

\* visit_WhileStmtNode / visit_ForStmtNode from the visit of the condition to
\* the visit of the body
loop_test(g, n, fr) ==
    position_at_end(
        set_terminator(to_condition(eval(g, n.condition)),
                       Term("cbranch", <<fr.loop_body, fr.loop_exit>>)),
        fr.loop_body)

\* visit_WhileStmtNode up to the visit of the body
visit_WhileStmtNode_enter(g, n) == loop_test(while_header(g, while_blocks(g)), n, while_blocks(g))

\* a while statement that leaves its loop context on the stack
visit_WhileStmtNode_exit_unpopped(g, fr) ==
    position_at_end(branch_if_open(g, fr.loop_condition), fr.loop_exit)

\* visit_WhileStmtNode after the visit of the body
visit_WhileStmtNode_exit(g, fr) ==
    position_at_end(pop_loop(branch_if_open(g, fr.loop_condition)), fr.loop_exit)

\* the statement in the init or update slot of a for statement
visit_slot(g, st) ==
    IF raised(g) THEN g
    ELSE CASE st.kind = "DeclarationStmtNode" -> visit_DeclarationStmtNode(g, st)
           [] st.kind = "AssignmentStmtNode" -> visit_AssignmentStmtNode(g, st)
           [] OTHER -> g

\* a for statement whose continue target is its condition block
for_header_skipping_update(g, fr) ==
    position_at_end(
        set_terminator(
            push_loop(append_basic_block(append_basic_block(append_basic_block(
                          append_basic_block(g, "for.condition"), "for.body"), "for.update"),
                          "for.exit"),
                      <<fr.loop_condition, fr.loop_exit>>),
            Term("br", <<fr.loop_condition>>)),
        fr.loop_condition)

\* visit_ForStmtNode from the end of the init statement to the visit of the
\* condition: the blocks, the loop context, the branch into the condition
for_header(g, fr) ==
    position_at_end(
        set_terminator(
            push_loop(append_basic_block(append_basic_block(append_basic_block(
                          append_basic_block(g, "for.condition"), "for.body"), "for.update"),
                          "for.exit"),
                      <<fr.loop_update, fr.loop_exit>>),
            Term("br", <<fr.loop_condition>>)),
        fr.loop_condition)

\* a for statement that opens a scope of its own for the init statement
visit_ForStmtNode_enter_scoped(g, n) ==
    loop_test(for_header(visit_slot(push_scope(g), n.init), for_blocks(g)), n, for_blocks(g))

\* visit_ForStmtNode up to the visit of the body
visit_ForStmtNode_enter(g, n) ==
    loop_test(for_header(visit_slot(g, n.init), for_blocks(g)), n, for_blocks(g))

\* visit_ForStmtNode after the visit of the body
visit_ForStmtNode_exit(g, fr, update) ==
    position_at_end(
        pop_loop(
            branch_if_open(
                visit_slot(position_at_end(branch_if_open(g, fr.loop_update), fr.loop_update),
                           update),
                fr.loop_condition)),
        fr.loop_exit)

\* ------------------------------------------------------------ inputs
\* statement nodes
DeclarationStmtNode(id, t, v, c) ==
    [kind |-> "DeclarationStmtNode", identifier |-> id, type |-> t, val |-> v,
     is_const |-> c, expr |-> NoExpr, operator |-> ""]
AssignmentStmtNode(id, e) ==
    [kind |-> "AssignmentStmtNode", identifier |-> id, type |-> "", val |-> NoExpr,
     is_const |-> FALSE, expr |-> e, operator |-> ""]
CompoundAssignStmtNode(id, o, e) ==
    [kind |-> "CompoundAssignStmtNode", identifier |-> id, type |-> "", val |-> NoExpr,
     is_const |-> FALSE, expr |-> e, operator |-> o]
NameStmtNode(k, id) ==
    [kind |-> k, identifier |-> id, type |-> "", val |-> NoExpr,
     is_const |-> FALSE, expr |-> NoExpr, operator |-> ""]
ReturnStmtNode(e) ==
    [kind |-> "ReturnStmtNode", identifier |-> "", type |-> "", val |-> NoExpr,
     is_const |-> FALSE, expr |-> e, operator |-> ""]
NoStmt == NameStmtNode("None", "")
\* expr is the first of the expressions
PrintStmtNode(es) ==
    [kind |-> "PrintStmtNode", identifier |-> "", type |-> "", val |-> NoExpr,
     is_const |-> FALSE, expr |-> es[1], operator |-> "", expressions |-> es]
\* an if or while statement: the part of its handler that ran (operator)
PartNode(kind, part) ==
    [kind |-> kind, identifier |-> "", type |-> "", val |-> NoExpr,
     is_const |-> FALSE, expr |-> NoExpr, operator |-> part]
\* a for statement: the part of visit_ForStmtNode that ran (operator) and the
\* statement in the init or update slot it visited
ForStmtNode(part, st) ==
    [kind |-> "ForStmtNode", identifier |-> "", type |-> "", val |-> NoExpr,
     is_const |-> FALSE, expr |-> NoExpr, operator |-> part, slot |-> st]

\* a type inference that takes every initializer for an int
infer_type_untyped(value_expr) == "int"

\* let_stmt / const_stmt of the AST builder: the type of a declaration
\* without annotation
infer_type(value_expr) ==
    IF value_expr.kind = "ValueNode" THEN
        CASE value_expr.value = "bool" -> "bool"
          [] value_expr.value = "float" -> "float"
          [] value_expr.value = "str" -> "string"
          [] OTHER -> "int"
    ELSE "int"

TypeTags == {"int", "float", "bool", "string", "void"}
CompoundOps == {"+=", "-=", "*=", "/=", "%="}

\* the expressions of the control-flow specification: an integer literal, a
\* variable, a call of each function a program may hold and of one it may not
Atoms == {LiteralExprNode, ValueNode("bool"), ValueNode("float"), ValueNode("str")}
            \cup {IdentifierExprNode(v) : v \in VarNames}
Calls == {CallExprNode("f", <<>>), CallExprNode("g", <<LiteralExprNode>>),
          CallExprNode(NoFunc, <<>>)}
Reads == {LiteralExprNode} \cup {IdentifierExprNode(v) : v \in VarNames}
Exprs == Reads \cup Calls
Conditions == {ValueNode("bool")} \cup {IdentifierExprNode(v) : v \in VarNames}

Declarations ==
    {DeclarationStmtNode(v, infer_type(e), e, c) : v \in VarNames, e \in Reads, c \in BOOLEAN}
    \cup {DeclarationStmtNode(v, "int", NoExpr, FALSE) : v \in VarNames}
Assignments == {AssignmentStmtNode(v, e) : v \in VarNames, e \in Exprs}
CompoundAssigns == {CompoundAssignStmtNode(v, "+=", LiteralExprNode) : v \in VarNames}
Returns == {ReturnStmtNode(e) : e \in Reads \cup {CallExprNode(NoFunc, <<>>)}}
ForInits == {NoStmt} \cup {n \in Declarations : n.val = LiteralExprNode /\ ~n.is_const}
                \cup {n \in Assignments : n.expr = LiteralExprNode}
ForUpdates == {n \in Assignments : n.expr \in {LiteralExprNode, IdentifierExprNode("x")}}

FuncDefNodes == {[identifier |-> "f", type |-> "int", params |-> <<>>],
                 [identifier |-> "g", type |-> "int",
                  params |-> <<[type |-> "int", name |-> "n"]>>]}
ProgramNodes == UNION {[1..n -> FuncDefNodes] : n \in 1..MaxFuncs}

\* no AstBuilder callback has run: the generator is handed a finished tree
NoCall == [callback |-> "", items |-> <<>>]

\* ---------------------------------------------------------------- Init
Init ==
    /\ func_defs \in ProgramNodes
    /\ phase = "declare"
    /\ idx = 1
    /\ functions = <<>>
    /\ scope_stack = << <<>> >>
    /\ const_variables = {}
    /\ loop_stack = <<>>
    /\ blocks = <<>>
    /\ cur = 0
    /\ frames = <<>>
    /\ node = NameStmtNode("ProgramNode", "")
    /\ emitted = <<>>
    /\ err = ""
    /\ globals = <<>>
    /\ call = NoCall

\* the state after a handler (or a part of one) has run: an exception ends
\* the compilation where it was raised
Commit(g, n, ph, i, frs) ==
    /\ functions' = g.functions
    /\ scope_stack' = g.scope_stack
    /\ const_variables' = g.const_variables
    /\ loop_stack' = g.loop_stack
    /\ blocks' = g.blocks
    /\ cur' = g.cur
    /\ emitted' = g.emitted
    /\ err' = g.err
    /\ globals' = g.globals
    /\ node' = n
    /\ phase' = IF g.err # "" THEN "error" ELSE ph
    /\ idx' = IF g.err # "" THEN idx ELSE i
    /\ frames' = IF g.err # "" THEN frames ELSE frs
    /\ UNCHANGED <<func_defs, call>>

Statement(g, n) == Len(globals) < MaxGlobals /\ Commit(g, n, phase, idx, frames)
Push(fr) == Append(frames, fr)
Pop == SubSeq(frames, 1, Len(frames) - 1)
Top == frames[Len(frames)]

\* ------------------------------------------------------------- actions
\* visit_ProgramNode: where its two loops go after declaring, and after
\* defining, function i of n
\* a single pass: each function is defined right after it is declared
after_declare_single_pass(i, n) == <<"define", i>>
after_declare(i, n) == IF i = n THEN <<"define", 1>> ELSE <<"declare", i + 1>>
after_define(i, n) == IF i = n THEN <<"done", i + 1>> ELSE <<"define", i + 1>>

\* visit_ProgramNode, first loop: one function declared
DeclareFunction ==
    /\ phase = "declare"
    /\ Commit(_declare_function(Gen, func_defs[idx]), NameStmtNode("FuncDefNode", func_defs[idx].identifier),
              after_declare(idx, Len(func_defs))[1], after_declare(idx, Len(func_defs))[2],
              frames)

\* visit_ProgramNode, second loop: _define_function starts on a function
DefineFunction ==
    /\ phase = "define"
    /\ Len(blocks) < MaxBlocks
    /\ Commit(_define_function_enter(Gen, func_defs[idx]), NameStmtNode("FuncDefNode", func_defs[idx].identifier),
              "body", idx, frames)

\* the body has been visited: _define_function returns, and visit_ProgramNode
\* goes on to the next function or returns the module
EndFunction ==
    /\ phase = "body"
    /\ frames = <<>>
    /\ Commit(_define_function_exit(Gen), NameStmtNode("BlockNode", func_defs[idx].identifier),
              after_define(idx, Len(func_defs))[1], after_define(idx, Len(func_defs))[2],
              frames)

Declaration ==
    /\ phase = "body"
    /\ \E n \in Declarations : Statement(visit_DeclarationStmtNode(Gen, n), n)

Assignment ==
    /\ phase = "body"
    /\ \E n \in Assignments : Statement(visit_AssignmentStmtNode(Gen, n), n)

CompoundAssign ==
    /\ phase = "body"
    /\ \E n \in CompoundAssigns : Statement(visit_CompoundAssignStmtNode(Gen, n), n)

Increment ==
    /\ phase = "body"
    /\ \E v \in VarNames :
        LET n == NameStmtNode("IncrementStmtNode", v)
        IN  Statement(visit_IncrementStmtNode(Gen, n), n)

Decrement ==
    /\ phase = "body"
    /\ \E v \in VarNames :
        LET n == NameStmtNode("DecrementStmtNode", v)
        IN  Statement(visit_DecrementStmtNode(Gen, n), n)

Return ==
    /\ phase = "body"
    /\ \E n \in Returns : Statement(visit_ReturnStmtNode(Gen, n), n)

Break ==
    /\ phase = "body"
    /\ Statement(visit_BreakStmtNode(Gen), NameStmtNode("BreakStmtNode", ""))

Continue ==
    /\ phase = "body"
    /\ Statement(visit_ContinueStmtNode(Gen), NameStmtNode("ContinueStmtNode", ""))

IfEnter ==
    /\ phase = "body"
    /\ Len(frames) < MaxDepth
    /\ \E c \in Conditions, has_else \in BOOLEAN :
        /\ Len(blocks) + (IF has_else THEN 3 ELSE 2) <= MaxBlocks
        /\ Commit(visit_IfStmtNode_enter(Gen, [condition |-> c, has_else |-> has_else]),
                  PartNode("IfStmtNode", "condition"), phase, idx,
                  Push(if_blocks(Gen, [condition |-> c, has_else |-> has_else])))

IfThenExit ==
    /\ phase = "body"
    /\ frames # <<>>
    /\ Top.kind = "if" /\ Top.stage = "then"
    /\ Commit(visit_IfStmtNode_then_exit(Gen, Top), PartNode("IfStmtNode", "then"), phase, idx,
              IF Top.else_block # 0 THEN Append(Pop, [Top EXCEPT !.stage = "else"]) ELSE Pop)

IfElseExit ==
    /\ phase = "body"
    /\ frames # <<>>
    /\ Top.kind = "if" /\ Top.stage = "else"
    /\ Commit(visit_IfStmtNode_else_exit(Gen, Top), PartNode("IfStmtNode", "else"), phase, idx, Pop)

WhileEnter ==
    /\ phase = "body"
    /\ Len(frames) < MaxDepth
    /\ Len(blocks) + 3 <= MaxBlocks
    /\ \E c \in Conditions :
        Commit(visit_WhileStmtNode_enter(Gen, [condition |-> c]),
               PartNode("WhileStmtNode", "condition"), phase, idx, Push(while_blocks(Gen)))

WhileExit ==
    /\ phase = "body"
    /\ frames # <<>>
    /\ Top.kind = "while"
    /\ Commit(visit_WhileStmtNode_exit(Gen, Top), PartNode("WhileStmtNode", "body"), phase, idx, Pop)

\* the bound is on the blocks the handler leaves: an init statement that
\* raises appends none
ForEnter ==
    /\ phase = "body"
    /\ Len(frames) < MaxDepth
    /\ \E i \in ForInits, c \in Conditions :
        /\ Len(visit_ForStmtNode_enter(Gen, [init |-> i, condition |-> c]).blocks) <= MaxBlocks
        /\ Commit(visit_ForStmtNode_enter(Gen, [init |-> i, condition |-> c]),
                  ForStmtNode("init", i), phase, idx, Push(for_blocks(Gen)))

ForExit ==
    /\ phase = "body"
    /\ frames # <<>>
    /\ Top.kind = "for"
    /\ \E u \in ForUpdates :
        Commit(visit_ForStmtNode_exit(Gen, Top, u), ForStmtNode("update", u), phase, idx, Pop)

Next ==
    \/ DeclareFunction
    \/ DefineFunction
    \/ EndFunction
    \/ Declaration
    \/ Assignment
    \/ CompoundAssign
    \/ Increment
    \/ Decrement
    \/ Return
    \/ Break
    \/ Continue
    \/ IfEnter
    \/ IfThenExit
    \/ IfElseExit
    \/ WhileEnter
    \/ WhileExit
    \/ ForEnter
    \/ ForExit

Spec == Init /\ [][Next]_vars

\* ------------------------------------------- expression lowering alone
\* One function f() whose body is straight-line code over the variable x:
\* x is declared from a literal of each type, then assigned every binary
\* operation over the literals and x.
Literals == {LiteralExprNode, ValueNode("bool"), ValueNode("float"), ValueNode("str")}
BinaryExprs == {BinaryOpNode(o, l, r) : o \in BinOps, l \in Atoms, r \in Atoms}
LoweringDeclarations ==
    {DeclarationStmtNode(v, infer_type(e), e, c) : v \in VarNames, e \in Literals, c \in BOOLEAN}
LoweringAssignments == {AssignmentStmtNode(v, e) : v \in VarNames, e \in BinaryExprs}

InitLowering ==
    /\ Init
    /\ func_defs = <<[identifier |-> "f", type |-> "int", params |-> <<>>]>>

LowerDeclaration ==
    /\ phase = "body"
    /\ \E n \in LoweringDeclarations : Statement(visit_DeclarationStmtNode(Gen, n), n)

LowerAssignment ==
    /\ phase = "body"
    /\ \E n \in LoweringAssignments : Statement(visit_AssignmentStmtNode(Gen, n), n)

NextLowering ==
    \/ DeclareFunction
    \/ DefineFunction
    \/ LowerDeclaration
    \/ LowerAssignment

SpecLowering == InitLowering /\ [][NextLowering]_vars

\* ------------------------------------------------------- calls alone
\* Two functions, p(int a, float b) and f(); the body of p declares x from a
\* literal of each type and returns calls of p, of f and of an undeclared
\* function with up to MaxArgs arguments drawn from the literals and x.
MaxArgs == 2
CalleeDefNodes ==
    <<[identifier |-> "p", type |-> "int",
       params |-> <<[type |-> "int", name |-> "a"], [type |-> "float", name |-> "b"]>>],
      [identifier |-> "f", type |-> "int", params |-> <<>>]>>
ArgLists == UNION {[1..k -> Atoms] : k \in 0..MaxArgs}
CallReturns ==
    {ReturnStmtNode(CallExprNode(c, a)) : c \in {"p", "f", NoFunc}, a \in ArgLists}

InitCalls ==
    /\ func_defs = CalleeDefNodes
    /\ phase = "declare"
    /\ idx = 1
    /\ functions = <<>>
    /\ scope_stack = << <<>> >>
    /\ const_variables = {}
    /\ loop_stack = <<>>
    /\ blocks = <<>>
    /\ cur = 0
    /\ frames = <<>>
    /\ node = NameStmtNode("ProgramNode", "")
    /\ emitted = <<>>
    /\ err = ""
    /\ globals = <<>>
    /\ call = NoCall

ReturnCall ==
    /\ phase = "body"
    /\ \E n \in CallReturns : Statement(visit_ReturnStmtNode(Gen, n), n)

NextCalls ==
    \/ DeclareFunction
    \/ DefineFunction
    \/ LowerDeclaration
    \/ ReturnCall

SpecCalls == InitCalls /\ [][NextCalls]_vars

\* ------------------------------------------- compound assignment alone
\* One function f() whose body declares x from a literal of each type and
\* then applies every compound operator to x with a literal of each type.
CompoundStmts ==
    {CompoundAssignStmtNode(v, o, e) : v \in VarNames, o \in CompoundOps, e \in Literals}

LowerCompound ==
    /\ phase = "body"
    /\ \E n \in CompoundStmts : Statement(visit_CompoundAssignStmtNode(Gen, n), n)

NextCompound ==
    \/ DeclareFunction
    \/ DefineFunction
    \/ LowerDeclaration
    \/ LowerCompound

SpecCompound == InitLowering /\ [][NextCompound]_vars

\* -------------------------------------------------- conditions alone
\* One function f() whose body declares x from a literal of each type and
\* opens if, while and for statements on a literal of each type and on x;
\* node.expr keeps the condition the statement was opened on.
ConditionExprs == Literals \cup {IdentifierExprNode(v) : v \in VarNames}
ConditionNode(kind, c) == [PartNode(kind, "condition") EXCEPT !.expr = c]

IfCondition ==
    /\ phase = "body"
    /\ Len(frames) < MaxDepth
    /\ \E c \in ConditionExprs, has_else \in BOOLEAN :
        /\ Len(blocks) + (IF has_else THEN 3 ELSE 2) <= MaxBlocks
        /\ Commit(visit_IfStmtNode_enter(Gen, [condition |-> c, has_else |-> has_else]),
                  ConditionNode("IfStmtNode", c), phase, idx,
                  Push(if_blocks(Gen, [condition |-> c, has_else |-> has_else])))

WhileCondition ==
    /\ phase = "body"
    /\ Len(frames) < MaxDepth
    /\ Len(blocks) + 3 <= MaxBlocks
    /\ \E c \in ConditionExprs :
        Commit(visit_WhileStmtNode_enter(Gen, [condition |-> c]),
               ConditionNode("WhileStmtNode", c), phase, idx, Push(while_blocks(Gen)))

ForCondition ==
    /\ phase = "body"
    /\ Len(frames) < MaxDepth
    /\ Len(blocks) + 4 <= MaxBlocks
    /\ \E c \in ConditionExprs :
        Commit(visit_ForStmtNode_enter(Gen, [init |-> NoStmt, condition |-> c]),
               ConditionNode("ForStmtNode", c), phase, idx, Push(for_blocks(Gen)))

NextConditions ==
    \/ DeclareFunction
    \/ DefineFunction
    \/ LowerDeclaration
    \/ IfCondition
    \/ IfThenExit
    \/ IfElseExit
    \/ WhileCondition
    \/ WhileExit
    \/ ForCondition
    \/ ForExit

SpecConditions == InitLowering /\ [][NextConditions]_vars

\* --------------------------------------------------------- print alone
\* Programs of one or two functions, among them a function the program itself
\* calls printf; each body is a sequence of prints of up to MaxPrint
\* expressions drawn from the literals and the undeclared variable x.
MaxPrint == 2
PrintDefNodes ==
    {[identifier |-> "f", type |-> "int", params |-> <<>>],
     [identifier |-> "printf", type |-> "int", params |-> <<[type |-> "string", name |-> "s"]>>],
     [identifier |-> "printf", type |-> "int", params |-> <<[type |-> "int", name |-> "n"]>>]}
PrintPrograms ==
    {<<[identifier |-> "main", type |-> "int", params |-> <<>>]>>}
    \cup {<<fd, [identifier |-> "main", type |-> "int", params |-> <<>>]>> : fd \in PrintDefNodes}
PrintStmts == {PrintStmtNode(es) : es \in UNION {[1..k -> Atoms] : k \in 1..MaxPrint}}

InitPrint ==
    /\ func_defs \in PrintPrograms
    /\ phase = "declare"
    /\ idx = 1
    /\ functions = <<>>
    /\ scope_stack = << <<>> >>
    /\ const_variables = {}
    /\ loop_stack = <<>>
    /\ blocks = <<>>
    /\ cur = 0
    /\ frames = <<>>
    /\ node = NoStmt
    /\ emitted = <<>>
    /\ err = ""
    /\ globals = <<>>
    /\ call = NoCall

LowerPrint ==
    /\ phase = "body"
    /\ \E n \in PrintStmts : Statement(visit_PrintStmtNode(Gen, n), n)

NextPrint ==
    \/ DeclareFunction
    \/ DefineFunction
    \/ EndFunction
    \/ LowerPrint

SpecPrint == InitPrint /\ [][NextPrint]_vars

\* --------------------------------------------------------- casts alone
\* Two functions, f() and the void function v(); the body of f declares x
\* from a literal of each type and returns a cast, to each type tag and to a
\* tag that names no type, of a literal, of x and of a call of v.
CastTargets == TypeTags \cup {"char"}
CastDefNodes ==
    <<[identifier |-> "f", type |-> "int", params |-> <<>>],
      [identifier |-> "v", type |-> "void", params |-> <<>>]>>
CastOperands == Atoms \cup {CallExprNode("v", <<>>)}
CastReturns == {ReturnStmtNode(CastExprNode(t, e)) : t \in CastTargets, e \in CastOperands}

InitCasts ==
    /\ func_defs = CastDefNodes
    /\ phase = "declare"
    /\ idx = 1
    /\ functions = <<>>
    /\ scope_stack = << <<>> >>
    /\ const_variables = {}
    /\ loop_stack = <<>>
    /\ blocks = <<>>
    /\ cur = 0
    /\ frames = <<>>
    /\ node = NoStmt
    /\ emitted = <<>>
    /\ err = ""
    /\ globals = <<>>
    /\ call = NoCall

ReturnCast ==
    /\ phase = "body"
    /\ \E n \in CastReturns : Statement(visit_ReturnStmtNode(Gen, n), n)

NextCasts ==
    \/ DeclareFunction
    \/ DefineFunction
    \/ LowerDeclaration
    \/ ReturnCast

SpecCasts == InitCasts /\ [][NextCasts]_vars

\* --------------------------------------------------------- slots alone
\* One void function, v(n) or v(n, m), with n of each type and m a float; its
\* body declares x and n with each type tag, with and without an initializer
\* (a literal of each type, n, or a call of v with one or two arguments), and
\* assigns, compound-assigns, increments and decrements both names.
SlotNames == VarNames \cup {"n"}
ParamTags == {"int", "float", "bool", "string"}
SlotPrograms ==
    {<<[identifier |-> "v", type |-> "void",
        params |-> <<[type |-> t, name |-> "n"]>> \o ms]>> :
        t \in ParamTags, ms \in {<<>>, <<[type |-> "float", name |-> "m"]>>}}
SlotInitializers ==
    Literals \cup {IdentifierExprNode("n"), CallExprNode("v", <<IdentifierExprNode("n")>>),
                   CallExprNode("v", <<IdentifierExprNode("n"), ValueNode("float")>>)}
TypedDeclarations ==
    {DeclarationStmtNode(v, t, e, c) :
        v \in SlotNames, t \in TypeTags, e \in SlotInitializers, c \in BOOLEAN}
    \cup {DeclarationStmtNode(v, t, NoExpr, FALSE) : v \in SlotNames, t \in TypeTags}
SlotAssignments ==
    {AssignmentStmtNode(v, e) :
        v \in SlotNames, e \in Literals \cup {IdentifierExprNode(w) : w \in SlotNames}}
SlotCompounds == {CompoundAssignStmtNode(v, "+=", e) : v \in SlotNames, e \in Literals}
SlotSteps ==
    {NameStmtNode(k, v) : k \in {"IncrementStmtNode", "DecrementStmtNode"}, v \in SlotNames}

InitSlots ==
    /\ func_defs \in SlotPrograms
    /\ phase = "declare"
    /\ idx = 1
    /\ functions = <<>>
    /\ scope_stack = << <<>> >>
    /\ const_variables = {}
    /\ loop_stack = <<>>
    /\ blocks = <<>>
    /\ cur = 0
    /\ frames = <<>>
    /\ node = NameStmtNode("ProgramNode", "")
    /\ emitted = <<>>
    /\ err = ""
    /\ globals = <<>>
    /\ call = NoCall

LowerTypedDeclaration ==
    /\ phase = "body"
    /\ \E n \in TypedDeclarations : Statement(visit_DeclarationStmtNode(Gen, n), n)

LowerSlotAssignment ==
    /\ phase = "body"
    /\ \E n \in SlotAssignments : Statement(visit_AssignmentStmtNode(Gen, n), n)

LowerSlotCompound ==
    /\ phase = "body"
    /\ \E n \in SlotCompounds : Statement(visit_CompoundAssignStmtNode(Gen, n), n)

LowerSlotStep ==
    /\ phase = "body"
    /\ \E n \in SlotSteps :
        Statement(IF n.kind = "IncrementStmtNode" THEN visit_IncrementStmtNode(Gen, n)
                  ELSE visit_DecrementStmtNode(Gen, n), n)

NextSlots ==
    \/ DeclareFunction
    \/ DefineFunction
    \/ LowerTypedDeclaration
    \/ LowerSlotAssignment
    \/ LowerSlotCompound
    \/ LowerSlotStep

SpecSlots == InitSlots /\ [][NextSlots]_vars

\* ======================================================== the AST builder
\* AstBuilder is a bottom-up transformer: each callback is handed the
\* already transformed children (items) of one parse-tree node and returns
\* the AST node for it.
MaxLine == 2
MaxColumn == 2

\* a token of the source text, with lark's 1-based position
Token(l, c, v) == [kind |-> "Token", line |-> l, column |-> c, value |-> v]
Positions == (1..MaxLine) \X (1..MaxColumn)

\* Node.__init__: every node stores the line and column it is given
located(n, line, column) ==
    [k \in DOMAIN n \cup {"line", "column"} |->
        IF k = "line" THEN line ELSE IF k = "column" THEN column ELSE n[k]]

\* what a callback or a constructor gives back: a node, or an exception
Built(n) == [err |-> "", node |-> n]
Failure(m) == [err |-> m, node |-> NoStmt]

ErrInvalidType == "TypeError: Expected type to be one of VALID_TYPES"
ErrInvalidVal == "TypeError: Expected val to be ExprNode or None"
ErrConstUninitialized == "ValueError: Const variable must be initialized"
ErrConstNoInitializer == "ValueError: Const declaration must have an initializer"

VALID_TYPES == {"int", "string", "float", "void", "bool"}
ExprKinds == {"LiteralExprNode", "ValueNode", "IdentifierExprNode", "CallExprNode",
              "BinaryOpNode"}

\* a declaration node that skips the test of const without initializer
DeclarationStmtNode_init_unguarded(line, column, type, identifier, val, is_const) ==
    IF type \notin VALID_TYPES THEN Failure(ErrInvalidType)
    ELSE IF val.kind # "None" /\ val.kind \notin ExprKinds THEN Failure(ErrInvalidVal)
    ELSE Built(located(DeclarationStmtNode(identifier, type, val, is_const), line, column))

\* DeclarationStmtNode.__init__
DeclarationStmtNode_init(line, column, type, identifier, val, is_const) ==
    IF type \notin VALID_TYPES THEN Failure(ErrInvalidType)
    ELSE IF val.kind # "None" /\ val.kind \notin ExprKinds THEN Failure(ErrInvalidVal)
    ELSE IF is_const /\ val.kind = "None" THEN Failure(ErrConstUninitialized)
    ELSE Built(located(DeclarationStmtNode(identifier, type, val, is_const), line, column))

\* the callbacks of the terminals
LITERAL(item) == located(LiteralExprNode, item.line, item.column)
IDENTIFIER(item) == located(IdentifierExprNode(item.value), item.line, item.column)
FLOAT_LITERAL(item) == located(ValueNode("float"), item.line, item.column)
ESCAPED_STRING(item) == located(ValueNode("str"), item.line, item.column)
TRUE_FALSE(item) == located(ValueNode("bool"), item.line, item.column)

\* add, sub, ..., or_: the node takes the position of its left operand
binary(operator, items) ==
    located(BinaryOpNode(operator, items[1], items[2]), items[1].line, items[1].column)

func_call(items) ==
    located(CallExprNode(items[1].value, SubSeq(items, 2, Len(items))),
            items[1].line, items[1].column)

\* type_specifier: the type name as a str
Str(v) == [kind |-> "str", value |-> v]
type_specifier(items) == IF items = <<>> THEN Str("void") ELSE Str(items[1].value)

let_stmt(items) ==
    LET name_node == items[1]
        type_spec == IF Len(items) = 1 THEN "int"
                     ELSE IF Len(items) = 2
                          THEN IF items[2].kind = "str" THEN items[2].value
                               ELSE infer_type(items[2])
                     ELSE items[2].value
        value_expr == IF Len(items) = 1 THEN NoExpr
                      ELSE IF Len(items) = 2
                           THEN IF items[2].kind = "str" THEN NoExpr ELSE items[2]
                      ELSE items[3]
    IN  DeclarationStmtNode_init(name_node.line, name_node.column, type_spec,
                                 name_node.value, value_expr, FALSE)

const_stmt(items) ==
    LET name_node == items[1]
    IN  IF Len(items) = 2 THEN
            DeclarationStmtNode_init(name_node.line, name_node.column, infer_type(items[2]),
                                     name_node.value, items[2], TRUE)
        ELSE IF Len(items) = 3 THEN
            DeclarationStmtNode_init(name_node.line, name_node.column, items[2].value,
                                     name_node.value, items[3], TRUE)
        ELSE Failure(ErrConstNoInitializer)

assignment_stmt(items) ==
    located(AssignmentStmtNode(items[1].value, items[2]), items[1].line, items[1].column)

return_stmt(items) == located(ReturnStmtNode(items[1]), items[1].line, items[1].column)

increment_stmt(items) ==
    located(NameStmtNode("IncrementStmtNode", items[1].value), items[1].line, items[1].column)

decrement_stmt(items) ==
    located(NameStmtNode("DecrementStmtNode", items[1].value), items[1].line, items[1].column)

break_stmt(items) == located(NameStmtNode("BreakStmtNode", ""), 0, 0)

continue_stmt(items) == located(NameStmtNode("ContinueStmtNode", ""), 0, 0)

block(items) ==
    [kind |-> "BlockNode",
     line |-> IF items # <<>> THEN items[1].line ELSE 0,
     column |-> IF items # <<>> THEN items[1].column ELSE 0,
     stmts |-> items]

IsParamNode(item) == item.kind = "ParamNode"

func_def(items) ==
    [kind |-> "FuncDefNode", line |-> items[2].line, column |-> items[2].column,
     identifier |-> items[2].value, body |-> items[Len(items)], type |-> items[1].value,
     params |-> SelectSeq(SubSeq(items, 3, Len(items) - 1), IsParamNode)]

program(items) == [kind |-> "ProgramNode", line |-> 0, column |-> 0, func_defs |-> items]

param(items) ==
    [kind |-> "ParamNode", line |-> items[2].line, column |-> items[2].column,
     type |-> items[1].value, name |-> items[2].value]

\* ------------------------------------------------ the builder at work
\* The transformer works bottom-up: node is the subtree built last, and the
\* next callback gets it among its items, after tokens that precede it in
\* the source text.
Annotations == {"int", "bool"}
InvalidTypes == {"char"}
StmtKinds == {"DeclarationStmtNode", "AssignmentStmtNode", "ReturnStmtNode",
              "IncrementStmtNode", "DecrementStmtNode", "BreakStmtNode", "ContinueStmtNode"}

\* position p lies before position q in the text
Before(p, q) == p[1] < q[1] \/ (p[1] = q[1] /\ p[2] < q[2])
\* the tokens that can precede the subtree built last
Preceding == {p \in Positions : node.kind \in ExprKinds \cup StmtKinds \cup {"BlockNode"}
                                    => (node.line = 0 \/ Before(p, <<node.line, node.column>>))}
Following == {p \in Positions : Before(<<node.line, node.column>>, p)}

\* the subtree built last as an optional child of the next node
Optional(kinds) == {<<>>} \cup (IF node.kind \in kinds THEN {<<node>>} ELSE {})

InitBuilder ==
    /\ func_defs = <<>>
    /\ phase = "build"
    /\ idx = 1
    /\ functions = <<>>
    /\ scope_stack = << <<>> >>
    /\ const_variables = {}
    /\ loop_stack = <<>>
    /\ blocks = <<>>
    /\ cur = 0
    /\ frames = <<>>
    /\ node = NoStmt
    /\ emitted = <<>>
    /\ err = ""
    /\ globals = <<>>
    /\ call = NoCall

\* one callback has run on its items and has given back r
Callback(name, items, r) ==
    /\ call' = [callback |-> name, items |-> items]
    /\ node' = r.node
    /\ err' = r.err
    /\ phase' = IF r.err # "" THEN "error" ELSE "build"
    /\ UNCHANGED <<func_defs, idx, functions, scope_stack, const_variables, loop_stack,
                   blocks, cur, frames, emitted, globals>>

BuildTerminal ==
    /\ phase = "build"
    /\ \E p \in Positions :
        \/ Callback("LITERAL", <<Token(p[1], p[2], "1")>>,
                    Built(LITERAL(Token(p[1], p[2], "1"))))
        \/ Callback("IDENTIFIER", <<Token(p[1], p[2], "x")>>,
                    Built(IDENTIFIER(Token(p[1], p[2], "x"))))
        \/ Callback("FLOAT_LITERAL", <<Token(p[1], p[2], "1.5")>>,
                    Built(FLOAT_LITERAL(Token(p[1], p[2], "1.5"))))
        \/ Callback("ESCAPED_STRING", <<Token(p[1], p[2], "s")>>,
                    Built(ESCAPED_STRING(Token(p[1], p[2], "s"))))
        \/ Callback("TRUE", <<Token(p[1], p[2], "true")>>,
                    Built(TRUE_FALSE(Token(p[1], p[2], "true"))))
        \/ Callback("func_call", <<IDENTIFIER(Token(p[1], p[2], "f"))>>,
                    Built(func_call(<<IDENTIFIER(Token(p[1], p[2], "f"))>>)))

BuildBinary ==
    /\ phase = "build"
    /\ node.kind \in ExprKinds \ {"BinaryOpNode"}
    /\ \E p \in Following :
        Callback("add", <<node, LITERAL(Token(p[1], p[2], "1"))>>,
                 Built(binary("+", <<node, LITERAL(Token(p[1], p[2], "1"))>>)))

BuildLet ==
    /\ phase = "build"
    /\ \E p \in Preceding, t \in {<<>>} \cup {<<Str(a)>> : a \in Annotations},
          e \in Optional(ExprKinds) :
        LET items == <<IDENTIFIER(Token(p[1], p[2], "x"))>> \o t \o e
        IN  Callback("let_stmt", items, let_stmt(items))

BuildConst ==
    /\ phase = "build"
    /\ \E p \in Preceding, t \in {<<>>} \cup {<<Str(a)>> : a \in Annotations},
          e \in Optional(ExprKinds) :
        LET items == <<IDENTIFIER(Token(p[1], p[2], "x"))>> \o t \o e
        IN  Callback("const_stmt", items, const_stmt(items))

BuildAssignment ==
    /\ phase = "build"
    /\ node.kind \in ExprKinds
    /\ \E p \in Preceding :
        LET items == <<IDENTIFIER(Token(p[1], p[2], "x")), node>>
        IN  Callback("assignment_stmt", items, Built(assignment_stmt(items)))

BuildReturn ==
    /\ phase = "build"
    /\ node.kind \in ExprKinds
    /\ Callback("return_stmt", <<node>>, Built(return_stmt(<<node>>)))

BuildIncrement ==
    /\ phase = "build"
    /\ \E p \in Positions :
        LET items == <<IDENTIFIER(Token(p[1], p[2], "x"))>>
        IN  \/ Callback("increment_stmt", items, Built(increment_stmt(items)))
            \/ Callback("decrement_stmt", items, Built(decrement_stmt(items)))

BuildBreak ==
    /\ phase = "build"
    /\ \/ Callback("break_stmt", <<>>, Built(break_stmt(<<>>)))
       \/ Callback("continue_stmt", <<>>, Built(continue_stmt(<<>>)))

BuildBlock ==
    /\ phase = "build"
    /\ \E items \in Optional(StmtKinds) : Callback("block", items, Built(block(items)))

BuildFuncDef ==
    /\ phase = "build"
    /\ node.kind = "BlockNode"
    /\ \E p \in Preceding, q \in {<<>>} \cup {<<r>> : r \in Preceding} :
        /\ q # <<>> => Before(p, q[1])
        /\ LET params == IF q = <<>> THEN <<>>
                         ELSE <<param(<<type_specifier(<<Token(q[1][1], q[1][2], "int")>>),
                                        IDENTIFIER(Token(q[1][1], q[1][2], "n"))>>)>>
               items == <<type_specifier(<<Token(p[1], p[2], "int")>>),
                          IDENTIFIER(Token(p[1], p[2], "f"))>> \o params \o <<node>>
           IN  Callback("func_def", items, Built(func_def(items)))

BuildProgram ==
    /\ phase = "build"
    /\ node.kind = "FuncDefNode"
    /\ Callback("program", <<node>>, Built(program(<<node>>)))

\* DeclarationStmtNode called directly with any type tag
Construct ==
    /\ phase = "build"
    /\ \E p \in Preceding, t \in VALID_TYPES \cup InvalidTypes, e \in Optional(ExprKinds),
          c \in BOOLEAN :
        LET val == IF e = <<>> THEN NoExpr ELSE e[1]
        IN  Callback("DeclarationStmtNode", <<Str(t), Str("x"), val, [kind |-> "bool", value |-> c]>>,
                     DeclarationStmtNode_init(p[1], p[2], t, "x", val, c))

NextBuilder ==
    \/ BuildTerminal
    \/ BuildBinary
    \/ BuildLet
    \/ BuildConst
    \/ BuildAssignment
    \/ BuildReturn
    \/ BuildIncrement
    \/ BuildBreak
    \/ BuildBlock
    \/ BuildFuncDef
    \/ BuildProgram
    \/ Construct

SpecBuilder == InitBuilder /\ [][NextBuilder]_vars

\* ======================================================== properties
\* vocabulary of the properties
MutationKinds == {"AssignmentStmtNode", "CompoundAssignStmtNode",
                  "IncrementStmtNode", "DecrementStmtNode"}
MutabilityErrors == {ErrAssignConst, ErrIncConst, ErrDecConst}
ControlErrors == {ErrBreakOutside, ErrContinueOutside}
Lowering == phase \in {"body", "error"} /\ Len(scope_stack) = 2

\* the statement a handler visited: the statement itself, or the statement
\* in the slot of a for statement
Visited == IF node.kind = "ForStmtNode" THEN node.slot ELSE node
VisitedNext == IF node'.kind = "ForStmtNode" THEN node'.slot ELSE node'

\* the name was declared with const in the function being defined
DeclaredConstHere(v) ==
    /\ Len(scope_stack) = 2
    /\ v \in DOMAIN scope_stack[2]
    /\ scope_stack[2][v].decl = "const"

ConstError(kind) ==
    CASE kind = "IncrementStmtNode" -> ErrIncConst
      [] kind = "DecrementStmtNode" -> ErrDecConst
      [] OTHER -> ErrAssignConst

\* the loops being lowered, innermost last, as <<continue, break>> targets
RECURSIVE OpenLoops(_)
OpenLoops(frs) ==
    IF frs = <<>> THEN <<>>
    ELSE LET fr == frs[Len(frs)]
             rest == OpenLoops(SubSeq(frs, 1, Len(frs) - 1))
         IN  CASE fr.kind = "while" -> Append(rest, <<fr.loop_condition, fr.loop_exit>>)
               [] fr.kind = "for" -> Append(rest, <<fr.loop_update, fr.loop_exit>>)
               [] OTHER -> rest

ProgramFunctions == {func_defs[i].identifier : i \in 1..Len(func_defs)}

\* C1: when visit_ProgramNode has completed, every basic block of the module
\* holds exactly one terminator.
C1_ExactlyOneTerminator ==
    phase = "done" => \A b \in 1..Len(blocks) : Len(blocks[b].term) = 1

\* C2: a mutation (assignment, compound assignment, ++, --) of a name that
\* was declared const in the function being defined fails with the
\* mutability error of its kind, and has inserted no load and no store and
\* evaluated nothing.
C2_ConstMutationRejected ==
    (Lowering /\ Visited.kind \in MutationKinds /\ DeclaredConstHere(Visited.identifier))
        => /\ err = ConstError(Visited.kind)
           /\ \A i \in 1..Len(emitted) : emitted[i].op \notin {"load", "store"}
           /\ (node.kind # "ForStmtNode" => emitted = <<>>)

C2_Witness ==
    /\ err = ErrAssignConst
    /\ node.kind = "AssignmentStmtNode"
    /\ node.expr.kind = "IdentifierExprNode"
    /\ DeclaredConstHere(node.identifier)

\* C3: while a body is lowered the const set holds only names declared const
\* in the function being defined, so a mutability error is only ever
\* reported for such a name.
C3_ConstSetOfCurrentFunction ==
    /\ phase = "body" => \A v \in const_variables : DeclaredConstHere(v)
    /\ err \in MutabilityErrors => DeclaredConstHere(Visited.identifier)

\* C4: the loop-target stack always lists the loops being lowered, innermost
\* on top, and a break or continue that was lowered left in the builder's
\* block a branch to the break target (continue target) of the nearest
\* enclosing loop.
C4_BranchToNearestLoop ==
    /\ phase = "body" => loop_stack = OpenLoops(frames)
    /\ (phase = "body" /\ node.kind \in {"BreakStmtNode", "ContinueStmtNode"})
        => /\ OpenLoops(frames) # <<>>
           /\ LET nearest == OpenLoops(frames)[Len(OpenLoops(frames))]
                  target == IF node.kind = "BreakStmtNode" THEN nearest[2] ELSE nearest[1]
              IN  blocks[cur].term = <<Term("br", <<target>>)>>

C4_Witness ==
    /\ phase = "body"
    /\ node.kind = "BreakStmtNode"
    /\ Len(OpenLoops(frames)) = 2

\* C5: from the moment the first body is defined, every function of the
\* program is in the function table, and an undefined-function error is only
\* ever reported for a name that is no function of the program.
C5_DeclaredBeforeDefined ==
    /\ phase \in {"define", "body", "done"} => ProgramFunctions \subseteq DOMAIN functions
    /\ err = ErrUndefinedFunction =>
          \E e \in {Visited.val, Visited.expr} :
              e.kind = "CallExprNode" /\ e.value \notin ProgramFunctions

C5_Witness ==
    /\ phase = "body"
    /\ idx = 1
    /\ Len(func_defs) = 2
    /\ node.kind = "AssignmentStmtNode"
    /\ node.expr.kind = "CallExprNode"
    /\ node.expr.value = func_defs[2].identifier

\* C6: a break or continue visited while no loop is being lowered fails with
\* the control error of its kind and inserts nothing.
C6_BreakOutsideLoop ==
    (Lowering /\ node.kind \in {"BreakStmtNode", "ContinueStmtNode"} /\ OpenLoops(frames) = <<>>)
        => /\ err = (IF node.kind = "BreakStmtNode" THEN ErrBreakOutside ELSE ErrContinueOutside)
           /\ emitted = <<>>

C6_Witness ==
    /\ err = ErrBreakOutside
    /\ blocks[cur].name \in {"while.exit", "for.exit"}

\* the IR type of an operand that is a literal or a variable
OperandType(e) ==
    CASE e.kind = "LiteralExprNode" -> I32
      [] e.kind = "ValueNode" /\ e.value = "bool" -> I1
      [] e.kind = "ValueNode" /\ e.value = "float" -> DOUBLE
      [] e.kind = "ValueNode" /\ e.value = "str" -> I8PTR
      [] e.kind = "IdentifierExprNode" -> lookup_variable(scope_stack, e.value).type
      [] OTHER -> "None"

\* the signed-integer and the floating-point form of an operator
IntegerForm(op) ==
    CASE op = "+" -> Instr("add", "", I32, I32)
      [] op = "-" -> Instr("sub", "", I32, I32)
      [] op = "*" -> Instr("mul", "", I32, I32)
      [] op = "/" -> Instr("sdiv", "", I32, I32)
      [] op = "%" -> Instr("srem", "", I32, I32)
      [] OTHER -> Instr("icmp_signed", op, I32, I32)
FloatForm(op) ==
    CASE op = "+" -> Instr("fadd", "", DOUBLE, DOUBLE)
      [] op = "-" -> Instr("fsub", "", DOUBLE, DOUBLE)
      [] op = "*" -> Instr("fmul", "", DOUBLE, DOUBLE)
      [] op = "/" -> Instr("fdiv", "", DOUBLE, DOUBLE)
      [] op = "%" -> Instr("frem", "", DOUBLE, DOUBLE)
      [] OTHER -> Instr("fcmp_ordered", op, DOUBLE, DOUBLE)

\* an assignment of a binary operation whose operands were both visited
BinaryVisited ==
    /\ phase \in {"body", "error"}
    /\ node.kind = "AssignmentStmtNode"
    /\ node.expr.kind = "BinaryOpNode"
    /\ lookup_variable(scope_stack, node.identifier) # NoSlot
    /\ ~DeclaredConstHere(node.identifier)
    /\ OperandType(node.expr.args[1]) # "None"
    /\ OperandType(node.expr.args[2]) # "None"

\* what visit_BinaryOpNode inserted after its operands
IsOperandInstr(i) == i.op \in {"load", "bitcast", "store"}
IsOperationInstr(i) == ~IsOperandInstr(i)
Operation == SelectSeq(emitted, IsOperationInstr)

\* C7: an arithmetic or comparison operator over two i32 is lowered to its
\* signed-integer form; over a double and an i32 or double to its
\* floating-point form, the i32 first converted with sitofp; over an i1 and
\* an i32 to the integer form, the i1 first zero-extended; the operands of
\* the instruction always have one type.
C7_BinaryForms ==
    (BinaryVisited /\ node.expr.op \in ArithOps \cup CmpOps)
        => LET op == node.expr.op
               l == OperandType(node.expr.args[1])
               r == OperandType(node.expr.args[2])
           IN  /\ (l = I32 /\ r = I32) => Operation = <<IntegerForm(op)>>
               /\ (l = DOUBLE /\ r = DOUBLE) => Operation = <<FloatForm(op)>>
               /\ (l = I32 /\ r = DOUBLE) =>
                     Operation = <<Instr("sitofp", "left", I32, DOUBLE), FloatForm(op)>>
               /\ (l = DOUBLE /\ r = I32) =>
                     Operation = <<Instr("sitofp", "right", I32, DOUBLE), FloatForm(op)>>
               /\ (l = I1 /\ r = I32) =>
                     Operation = <<Instr("zext", "left", I1, I32), IntegerForm(op)>>
               /\ (l = I32 /\ r = I1) =>
                     Operation = <<Instr("zext", "right", I1, I32), IntegerForm(op)>>
               /\ \A i \in 1..Len(Operation) :
                     Operation[i].op \notin {"sitofp", "zext"} => Operation[i].lt = Operation[i].rt

C7_Witness ==
    /\ BinaryVisited
    /\ node.expr.op = "%"
    /\ OperandType(node.expr.args[1]) = I32
    /\ OperandType(node.expr.args[2]) = I1
    /\ node.expr.args[1].kind = "IdentifierExprNode"
    /\ err = ""

\* C8: a binary operation over two different operand types other than
\* {i32, double} and {i1, i32} fails with the type-mismatch error, with no
\* conversion and no arithmetic, comparison or logical instruction inserted.
C8_MismatchRejected ==
    BinaryVisited
        => LET l == OperandType(node.expr.args[1])
               r == OperandType(node.expr.args[2])
           IN  (l # r /\ {l, r} # {I32, DOUBLE} /\ {l, r} # {I1, I32})
                  => err = ErrBinaryMismatch /\ Operation = <<>>

C8_Witness ==
    /\ BinaryVisited
    /\ OperandType(node.expr.args[1]) = I1
    /\ OperandType(node.expr.args[2]) = DOUBLE
    /\ node.expr.op = "&&"
    /\ err = ErrBinaryMismatch

\* C9: a mutation of a name bound in no scope fails with the undefined-name
\* error of its kind, a read of such a name with the undefined-variable
\* error, and a call of a name outside the function table with the
\* undefined-function error.
UndefinedError(kind) ==
    CASE kind = "AssignmentStmtNode" -> ErrAssignUndefined
      [] kind = "CompoundAssignStmtNode" -> ErrCompoundUndefined
      [] kind = "IncrementStmtNode" -> ErrIncUndefined
      [] kind = "DecrementStmtNode" -> ErrDecUndefined

C9_UndefinedNameIsNameError ==
    /\ (Lowering /\ Visited.kind \in MutationKinds
            /\ lookup_variable(scope_stack, Visited.identifier) = NoSlot)
        => err = UndefinedError(Visited.kind)
    /\ (Lowering /\ node.kind = "ReturnStmtNode" /\ node.expr.kind = "IdentifierExprNode"
            /\ lookup_variable(scope_stack, node.expr.value) = NoSlot)
        => err = ErrUndefinedVariable
    /\ (Lowering /\ node.kind = "ReturnStmtNode" /\ node.expr.kind = "CallExprNode"
            /\ node.expr.value \notin DOMAIN functions)
        => err = ErrUndefinedFunction

\* C10: a declaration of a name already bound in the innermost scope is
\* rejected with nothing inserted, and leaves scope stack and const set as
\* they were.
C10_RedeclarationRejected ==
    [][(phase = "body" /\ VisitedNext.kind = "DeclarationStmtNode"
            /\ VisitedNext.identifier \in DOMAIN scope_stack[Len(scope_stack)])
        => /\ err' = ErrRedeclared
           /\ emitted' = <<>>
           /\ scope_stack' = scope_stack
           /\ const_variables' = const_variables]_vars

C10_Witness ==
    /\ err = ErrRedeclared
    /\ node.kind = "DeclarationStmtNode"
    /\ node.val.kind = "IdentifierExprNode"
    /\ ~node.is_const
    /\ DeclaredConstHere(node.identifier)

\* the instructions the visit of one argument inserts
ArgInstrs(e) ==
    CASE e.kind = "IdentifierExprNode" /\ OperandType(e) # "None" ->
            <<Instr("load", "", OperandType(e), "")>>
      [] e.kind = "ValueNode" /\ e.value = "str" -> <<Instr("bitcast", "", "[N x i8]*", "")>>
      [] OTHER -> <<>>

\* the instructions of the arguments visited left to right, up to the first
\* one whose visit fails
RECURSIVE ArgsInstrs(_)
ArgsInstrs(args) ==
    IF args = <<>> \/ OperandType(Head(args)) = "None" THEN <<>>
    ELSE ArgInstrs(Head(args)) \o ArgsInstrs(Tail(args))

\* a return of a call has been visited
CallVisited ==
    /\ phase \in {"body", "error"}
    /\ node.kind = "ReturnStmtNode"
    /\ node.expr.kind = "CallExprNode"

ArgTypes == [i \in 1..Len(node.expr.args) |-> OperandType(node.expr.args[i])]
ArgsDefined == \A i \in 1..Len(node.expr.args) : ArgTypes[i] # "None"
CallEmitted == \E i \in 1..Len(emitted) : emitted[i].op = "call"
ArgumentInstrs == SelectSeq(emitted, IsOperandInstr)

\* the callee is looked up before any argument is visited, and the
\* arguments are visited left to right
CallOrder ==
    /\ node.expr.value \notin DOMAIN functions
          => err = ErrUndefinedFunction /\ emitted = <<>>
    /\ node.expr.value \in DOMAIN functions
          => /\ ArgumentInstrs = ArgsInstrs(node.expr.args)
             /\ ~ArgsDefined => err = ErrUndefinedVariable /\ ~CallEmitted

\* C11 as stated: the callee is looked up first, the arguments are visited
\* left to right, and a call is emitted exactly when the number of arguments
\* is the callee's number of parameters; any other number fails with the
\* argument-count error and no call.
C11_CallExactlyOnArity ==
    CallVisited
        => /\ CallOrder
           /\ (node.expr.value \in DOMAIN functions /\ ArgsDefined)
                 => LET params == functions[node.expr.value].args
                    IN  /\ CallEmitted <=> Len(node.expr.args) = Len(params)
                        /\ Len(node.expr.args) # Len(params) => err = ErrArgCount

\* C11 amended: a call is emitted exactly when the number and the types of
\* the arguments are those of the callee's parameters; another number fails
\* with the argument-count error, the right number with another type fails
\* in the builder's call, and neither emits a call.
C11_CallOnArityAndTypes ==
    CallVisited
        => /\ CallOrder
           /\ (node.expr.value \in DOMAIN functions /\ ArgsDefined)
                 => LET params == functions[node.expr.value].args
                    IN  /\ CallEmitted <=> ArgTypes = params
                        /\ Len(node.expr.args) # Len(params) => err = ErrArgCount
                        /\ (Len(node.expr.args) = Len(params) /\ ArgTypes # params)
                              => err = ErrCallArgMismatch

C11_Witness ==
    /\ CallVisited
    /\ node.expr.value = "p"
    /\ Len(node.expr.args) = 1
    /\ node.expr.args[1].kind = "IdentifierExprNode"
    /\ err = ErrArgCount
    /\ ~CallEmitted

\* a let or const callback has built a declaration from its items
DeclarationBuilt ==
    /\ phase = "build"
    /\ call.callback \in {"let_stmt", "const_stmt"}
    /\ node.kind = "DeclarationStmtNode"

IsAnnotation(item) == item.kind = "str"
IsInitializer(item) == item.kind \in ExprKinds
\* the items after the declared name
AnnotationGiven == SelectSeq(Tail(call.items), IsAnnotation)
InitializerGiven == SelectSeq(Tail(call.items), IsInitializer)

\* C12: the declared type of a let or const declaration is the annotation
\* when there is one; otherwise bool, float or string for an initializer that
\* is a literal of that kind, and int for any other initializer and for none.
C12_DeclaredType ==
    DeclarationBuilt
        => node.type =
              IF AnnotationGiven # <<>> THEN AnnotationGiven[1].value
              ELSE IF InitializerGiven = <<>> THEN "int"
              ELSE IF InitializerGiven[1].kind # "ValueNode" THEN "int"
              ELSE CASE InitializerGiven[1].value = "bool" -> "bool"
                     [] InitializerGiven[1].value = "float" -> "float"
                     [] InitializerGiven[1].value = "str" -> "string"
                     [] OTHER -> "int"

C12_Witness ==
    /\ DeclarationBuilt
    /\ call.callback = "const_stmt"
    /\ AnnotationGiven = <<>>
    /\ InitializerGiven # <<>>
    /\ InitializerGiven[1].kind = "ValueNode"
    /\ InitializerGiven[1].value = "float"
    /\ node.type = "float"

\* the IR type of the operand of the cast
CastSource ==
    IF node.expr.args[1].kind = "CallExprNode" THEN functions[node.expr.args[1].value].ret
    ELSE OperandType(node.expr.args[1])

\* a cast has been visited as the value of a return, and its operand has a value
CastVisited ==
    /\ phase \in {"body", "error"}
    /\ node.kind = "ReturnStmtNode"
    /\ node.expr.kind = "CastExprNode"
    /\ CastSource # "None"

CastTarget == node.expr.value
ConversionOps == {"fptosi", "sitofp", "zext", "uitofp", "icmp_signed", "fcmp_ordered"}
IsConversion(i) == i.op \in ConversionOps
Conversions == SelectSeq(emitted, IsConversion)
SameType ==
    \/ CastSource = I32 /\ CastTarget = "int"
    \/ CastSource = DOUBLE /\ CastTarget = "float"
    \/ CastSource = I1 /\ CastTarget = "bool"
    \/ CastSource = I8PTR /\ CastTarget = "string"
    \/ CastSource = VOID /\ CastTarget = "void"

\* the cast returned a value: no exception left visit_CastExprNode (the ret
\* that follows it may still find its block closed)
CastDone == err \in {"", ErrTerminated}

\* C13: a cast to the operand's own type inserts no conversion; float to int
\* is fptosi, int to float sitofp, bool to int zext, bool to float uitofp, int
\* to bool and float to bool a comparison != 0 of the operand's type; every
\* other pair of types fails with the cast error and inserts nothing.
C13_CastTable ==
    CastVisited =>
        IF SameType THEN CastDone /\ Conversions = <<>>
        ELSE CASE CastSource = DOUBLE /\ CastTarget = "int" ->
                    CastDone /\ Conversions = <<Instr("fptosi", "", DOUBLE, I32)>>
               [] CastSource = I32 /\ CastTarget = "float" ->
                    CastDone /\ Conversions = <<Instr("sitofp", "", I32, DOUBLE)>>
               [] CastSource = I1 /\ CastTarget = "int" ->
                    CastDone /\ Conversions = <<Instr("zext", "", I1, I32)>>
               [] CastSource = I1 /\ CastTarget = "float" ->
                    CastDone /\ Conversions = <<Instr("uitofp", "", I1, DOUBLE)>>
               [] CastSource = I32 /\ CastTarget = "bool" ->
                    CastDone /\ Conversions = <<Instr("icmp_signed", "!=", I32, I32)>>
               [] CastSource = DOUBLE /\ CastTarget = "bool" ->
                    CastDone /\ Conversions = <<Instr("fcmp_ordered", "!=", DOUBLE, DOUBLE)>>
               [] OTHER -> ~CastDone /\ err = ErrCast /\ Conversions = <<>>

C13_Witness ==
    /\ CastVisited
    /\ CastSource = I1
    /\ CastTarget = "float"
    /\ node.expr.args[1].kind = "IdentifierExprNode"
    /\ err = ""
    /\ Conversions = <<Instr("uitofp", "", I1, DOUBLE)>>

\* a print got as far as creating its format string
HasPrinted == \E i \in 1..Len(globals) : globals[i].name.base = ".fstr."

\* the globals that carry the name printf
NamedPrintf == {i \in 1..Len(globals) : globals[i].name = Name("printf")}
IsExternalPrintf(gv) ==
    /\ gv.kind = "function"
    /\ gv.var_arg
    /\ gv.args = <<I8PTR>>
    /\ gv.name.base \notin {func_defs[i].identifier : i \in 1..Len(func_defs)}

\* C14: once a print has been lowered, in whatever function, the module holds
\* exactly one printf, the external variadic declaration printf(i8*, ...),
\* and the calls a print inserts name it.
C14_SinglePrintfDeclaration ==
    HasPrinted =>
        /\ Cardinality(NamedPrintf) = 1
        /\ \A i \in NamedPrintf : IsExternalPrintf(globals[i])
        /\ node.kind = "PrintStmtNode" =>
              \A i \in 1..Len(emitted) : emitted[i].op = "call" => emitted[i].pred = "printf"

\* a print statement has been lowered to the end
PrintLowered ==
    /\ phase = "body"
    /\ node.kind = "PrintStmtNode"
    /\ err = ""

IsCall(i) == i.op = "call"
PrintfCalls == SelectSeq(emitted, IsCall)
Specifier(type) ==
    CASE type = I8PTR -> "%s"
      [] type \in {I1, I32} -> "%d"
      [] type = DOUBLE -> "%f"

\* C15: a print of n expressions inserts n calls of printf, the k-th one
\* for the k-th expression; its format string is %s for an i8* value, %d for
\* an i1 or i32 value and %f for a double value, then one space when k < n
\* and a newline when k = n.
C15_OneCallPerExpression ==
    PrintLowered =>
        /\ Len(PrintfCalls) = Len(node.expressions)
        /\ \A k \in 1..Len(node.expressions) :
              /\ PrintfCalls[k].pred = "printf"
              /\ PrintfCalls[k].rt = OperandType(node.expressions[k])
              /\ PrintfCalls[k].lt =
                    Specifier(OperandType(node.expressions[k]))
                        \o (IF k < Len(node.expressions) THEN " " ELSE "\n")

C15_Witness ==
    /\ PrintLowered
    /\ Len(node.expressions) = 2
    /\ OperandType(node.expressions[1]) = DOUBLE
    /\ OperandType(node.expressions[2]) = I8PTR
    /\ Len(PrintfCalls) = 2
    /\ PrintfCalls[1].lt = "%f "
    /\ PrintfCalls[2].lt = "%s\n"

GlobalsNamed(prefix) == {i \in 1..Len(globals) : globals[i].name.base = prefix}

\* C16: no two globals of the module carry the same name, and no string
\* literal and no format string is ever refused its name: .str.<n> and
\* .fstr.<n> are new to the module whenever one is created.
C16_DistinctGlobalNames ==
    /\ \A i, j \in 1..Len(globals) : i # j => globals[i].name # globals[j].name
    /\ node.kind = "PrintStmtNode" => err # ErrDuplicatedName

C16_Witness ==
    /\ node.kind = "PrintStmtNode"
    /\ err = ""
    /\ Len(func_defs) = 2
    /\ GlobalsNamed("printf") # {}
    /\ Cardinality(GlobalsNamed(".str.")) >= 2
    /\ Cardinality(GlobalsNamed(".fstr.")) >= 2

\* a callback of the builder has given back a node
NodeBuilt ==
    /\ phase = "build"
    /\ call.callback # ""
    /\ err = ""

\* C17: a node the builder has constructed carries a position of the source
\* text, a line and a column counted from 1, and never the placeholder (0, 0).
C17_PositionFromToken == NodeBuilt => <<node.line, node.column>> \in Positions

\* the declarations in the tree built last: the node itself, or the
\* statements of a block
DeclarationsBuilt ==
    IF node.kind = "DeclarationStmtNode" THEN {node}
    ELSE IF node.kind = "BlockNode"
         THEN {node.stmts[i] : i \in {j \in 1..Len(node.stmts) :
                                          node.stmts[j].kind = "DeclarationStmtNode"}}
    ELSE {}

\* the constructor of DeclarationStmtNode has been called with a type tag
\* outside the closed set, or as a const without initializer
Constructed == phase \in {"build", "error"} /\ call.callback = "DeclarationStmtNode"
BadConstruction ==
    /\ Constructed
    /\ \/ call.items[1].value \notin {"int", "float", "bool", "string", "void"}
       \/ call.items[4].value /\ call.items[3].kind = "None"

\* C18: a declaration node that exists has a type of the closed set and, when
\* it is const, an initializer; constructing one with another type tag, or a
\* const one without initializer, raises an error and gives no node.
C18_DeclarationWellFormed ==
    /\ \A d \in DeclarationsBuilt :
          /\ d.type \in {"int", "float", "bool", "string", "void"}
          /\ d.is_const => d.val.kind # "None"
    /\ BadConstruction => err # "" /\ node = NoStmt
    /\ (phase \in {"build", "error"} /\ call.callback = "const_stmt" /\ Len(call.items) = 1)
          => err # "" /\ node = NoStmt

C18_Witness ==
    /\ BadConstruction
    /\ call.items[1].value = "int"
    /\ call.items[4].value
    /\ err = ErrConstUninitialized
    /\ node = NoStmt

\* a compound assignment to a declared, mutable name has been visited
CompoundVisited ==
    /\ phase \in {"body", "error"}
    /\ node.kind = "CompoundAssignStmtNode"
    /\ lookup_variable(scope_stack, node.identifier) # NoSlot
    /\ node.identifier \notin const_variables

SlotType == lookup_variable(scope_stack, node.identifier).type
RhsType == OperandType(node.expr)
IsArithmetic(i) ==
    i.op \in {"add", "sub", "mul", "sdiv", "srem", "fadd", "fsub", "fmul", "fdiv", "frem"}
Arithmetic == SelectSeq(emitted, IsArithmetic)
IsPromotion(i) == i.op \in {"sitofp", "zext"}
Promotions == SelectSeq(emitted, IsPromotion)

\* C19: a compound assignment whose slot and right-hand side differ in type
\* promotes as a binary operation does, sitofp on the i32 next to a double and
\* zext on the i1 next to an i32, and is rejected as a type mismatch for any
\* other pair; the arithmetic instruction it inserts has operands of one type.
C19_CompoundPromotes ==
    CompoundVisited =>
        /\ \A i \in 1..Len(Arithmetic) : Arithmetic[i].lt = Arithmetic[i].rt
        /\ SlotType # RhsType =>
              IF {SlotType, RhsType} = {I32, DOUBLE}
              THEN Len(Promotions) = 1 /\ Promotions[1].op = "sitofp" /\ Len(Arithmetic) = 1
              ELSE IF {SlotType, RhsType} = {I1, I32}
              THEN Len(Promotions) = 1 /\ Promotions[1].op = "zext" /\ Len(Arithmetic) = 1
              ELSE err = ErrBinaryMismatch /\ Arithmetic = <<>>

\* an if, while or for statement has been opened on a condition that has a
\* value
ConditionVisited ==
    /\ phase = "body"
    /\ node.kind \in {"IfStmtNode", "WhileStmtNode", "ForStmtNode"}
    /\ node.expr.kind # "None"
    /\ OperandType(node.expr) # "None"

ConditionType == OperandType(node.expr)
IsComparison(i) == i.op \in {"icmp_signed", "icmp_unsigned", "fcmp_ordered", "fcmp_unordered"}
Comparisons == SelectSeq(emitted, IsComparison)
IsBranch(i) == i.op = "cbranch"

\* C20: the condition of an if, while or for statement is used as it is when
\* it is an i1; an i32 condition is compared != 0 with an integer comparison
\* and a double condition != 0.0 with a floating-point comparison, and the
\* conditional branch comes after the comparison.
C20_ConditionCompared ==
    ConditionVisited =>
        /\ emitted # <<>> /\ IsBranch(emitted[Len(emitted)])
        /\ ConditionType = I1 => Comparisons = <<>>
        /\ ConditionType = I32 => Comparisons = <<Instr("icmp_signed", "!=", I32, I32)>>
        /\ ConditionType = DOUBLE =>
              /\ Len(Comparisons) = 1
              /\ Comparisons[1].op \in {"fcmp_ordered", "fcmp_unordered"}
              /\ Comparisons[1].pred = "!="
              /\ Comparisons[1].lt = DOUBLE

\* visit_IfStmtNode leaves its then region or its else region
IfRegionEnds ==
    /\ phase = "body"
    /\ frames # <<>>
    /\ Top.kind = "if"
    /\ node'.kind = "IfStmtNode"
    /\ node'.operator \in {"then", "else"}

\* C21: at the end of the then region, and of the else region, the block the
\* builder is in gets a branch to if.merge exactly when it holds no
\* terminator; a terminated block is left as it is; no error is raised; and
\* when the statement is done the builder is at if.merge.
C21_JoinTestsTermination ==
    [][IfRegionEnds
        => /\ err' = ""
           /\ blocks[cur].term = <<>>
                 => /\ blocks'[cur].term = <<Term("br", <<Top.merge_block>>)>>
                    /\ emitted' = <<Instr("br", "", "", "")>>
           /\ blocks[cur].term # <<>> => blocks' = blocks /\ emitted' = <<>>
           /\ \A b \in 1..Len(blocks) : b # cur => blocks'[b] = blocks[b]
           /\ (node'.operator = "else" \/ Top.else_block = 0) => cur' = Top.merge_block
           /\ (node'.operator = "then" /\ Top.else_block # 0) => cur' = Top.else_block]_vars

C21_Witness ==
    /\ phase = "body"
    /\ node.kind = "IfStmtNode"
    /\ node.operator = "else"
    /\ emitted = <<>>
    /\ blocks[cur].name = "if.merge"
    /\ \E b \in 1..Len(blocks) :
          /\ blocks[b].name = "if.else"
          /\ blocks[b].term # <<>>
          /\ blocks[b].term[1].op = "ret"

\* a break or continue is lowered directly in the body of the loop on top
JumpInLoop(kind) ==
    /\ phase = "body"
    /\ phase' = "body"
    /\ frames # <<>>
    /\ Top.kind = kind
    /\ node'.kind \in {"BreakStmtNode", "ContinueStmtNode"}

\* visit_WhileStmtNode leaves the body of its loop
WhileBodyEnds ==
    /\ phase = "body"
    /\ frames # <<>>
    /\ Top.kind = "while"
    /\ node'.kind = "WhileStmtNode"
    /\ node'.operator = "body"

\* C22: in a while loop a continue directly in the body branches to the
\* loop's while.condition block and a break to its while.exit block; at the
\* end of the body the builder's block gets a branch back to while.condition
\* exactly when it holds no terminator; after the loop the builder is at
\* while.exit.
C22_WhileTargets ==
    [][/\ JumpInLoop("while")
            => /\ blocks[Top.loop_condition].name = "while.condition"
               /\ blocks[Top.loop_exit].name = "while.exit"
               /\ blocks'[cur].term =
                     <<Term("br", <<IF node'.kind = "BreakStmtNode" THEN Top.loop_exit
                                    ELSE Top.loop_condition>>)>>
       /\ WhileBodyEnds
            => /\ err' = ""
               /\ blocks[cur].term = <<>>
                     => blocks'[cur].term = <<Term("br", <<Top.loop_condition>>)>>
               /\ blocks[cur].term # <<>> => blocks' = blocks /\ emitted' = <<>>
               /\ cur' = Top.loop_exit
               /\ blocks'[cur'].name = "while.exit"]_vars

C22_Witness ==
    /\ phase = "body"
    /\ node.kind = "ContinueStmtNode"
    /\ Len(frames) = 2
    /\ frames[1].kind = "while"
    /\ Top.kind = "while"
    /\ Top.loop_condition # frames[1].loop_condition
    /\ blocks[cur].term = <<Term("br", <<Top.loop_condition>>)>>

\* visit_ForStmtNode leaves the body of its loop and lowers the update
ForBodyEnds ==
    /\ phase = "body"
    /\ frames # <<>>
    /\ Top.kind = "for"
    /\ node'.kind = "ForStmtNode"
    /\ node'.operator = "update"

\* C23: in a for loop a continue directly in the body branches to the loop's
\* for.update block and a break to its for.exit block; at the end of the body
\* the builder's block gets a branch to for.update exactly when it holds no
\* terminator, the for.update block branches to for.condition, and after the
\* loop the builder is at for.exit.
C23_ForTargets ==
    [][/\ JumpInLoop("for")
            => /\ blocks[Top.loop_update].name = "for.update"
               /\ blocks[Top.loop_exit].name = "for.exit"
               /\ blocks'[cur].term =
                     <<Term("br", <<IF node'.kind = "BreakStmtNode" THEN Top.loop_exit
                                    ELSE Top.loop_update>>)>>
       /\ (ForBodyEnds /\ err' = "")
            => /\ blocks[cur].term = <<>>
                     => blocks'[cur].term = <<Term("br", <<Top.loop_update>>)>>
               /\ blocks[cur].term # <<>> => blocks'[cur] = blocks[cur]
               /\ blocks[Top.loop_condition].name = "for.condition"
               /\ blocks[Top.loop_update].term = <<>>
               /\ blocks'[Top.loop_update].term = <<Term("br", <<Top.loop_condition>>)>>
               /\ cur' = Top.loop_exit
               /\ blocks'[cur'].name = "for.exit"]_vars

C23_Witness ==
    /\ phase = "body"
    /\ node.kind = "ContinueStmtNode"
    /\ frames # <<>>
    /\ Top.kind = "for"
    /\ blocks[cur].name = "for.body"
    /\ blocks[cur].term = <<Term("br", <<Top.loop_update>>)>>
    /\ blocks[Top.loop_update].name = "for.update"

\* visit_ForStmtNode has visited a declaration in its init slot
ForInitDeclares ==
    /\ phase = "body"
    /\ node'.kind = "ForStmtNode"
    /\ node'.operator = "init"
    /\ node'.slot.kind = "DeclarationStmtNode"

TopScope == scope_stack[Len(scope_stack)]

\* C24: a variable declared in the init slot of a for statement is bound in
\* the scope the for statement stands in: no scope is opened for it, the
\* binding outlives the loop, and an init declaration of a name that scope
\* already binds (by a declaration or by the init of an earlier for
\* statement) is rejected as a redeclaration.
C24_ForInitScope ==
    [][/\ ForInitDeclares
            => /\ Len(scope_stack') = Len(scope_stack)
               /\ node'.slot.identifier \in DOMAIN TopScope
                     => err' = ErrRedeclared /\ scope_stack' = scope_stack
               /\ node'.slot.identifier \notin DOMAIN TopScope
                     => /\ err' # ErrRedeclared
                        /\ err' = "" => /\ node'.slot.identifier \in DOMAIN TopScope'
                                        /\ TopScope'[node'.slot.identifier].type = I32
       /\ ForBodyEnds
            => /\ Len(scope_stack') = Len(scope_stack)
               /\ \A v \in DOMAIN TopScope :
                     v \in DOMAIN TopScope' /\ TopScope'[v] = TopScope[v]]_vars

\* the init slot of a second for statement declares the name again, after
\* the first loop is closed
C24_Witness ==
    /\ phase = "error"
    /\ err = ErrRedeclared
    /\ node.kind = "ForStmtNode"
    /\ node.operator = "init"
    /\ node.slot.kind = "DeclarationStmtNode"
    /\ frames = <<>>
    /\ blocks[cur].name = "for.exit"

\* the innermost binding of a name, searched from the top of the stack down
RECURSIVE Innermost(_, _)
Innermost(ss, name) ==
    IF ss = <<>> THEN NoSlot
    ELSE IF name \in DOMAIN ss[Len(ss)] THEN ss[Len(ss)][name]
    ELSE Innermost(SubSeq(ss, 1, Len(ss) - 1), name)

BoundNames == VarNames \cup {"n"}

\* scope stacks up to three deep in which a name may be bound at any level,
\* to slots that differ in type
Scopes == {<<>>} \cup {[v \in {"x"} |-> Slot(t, "let", "f")] : t \in {I32, DOUBLE}}
ScopeStacks == UNION {[1..d -> Scopes] : d \in 1..3}

\* C25: a function body is lowered with one scope of its own on top of the
\* global one: the stack is never empty, it holds the global scope alone
\* between functions (so _define_function leaves the depth it found) and one
\* more scope inside a body, lookup_variable returns the innermost binding of
\* a name, and every name visible inside a body was bound while lowering that
\* same function.
C25_ScopePerFunction ==
    /\ Len(scope_stack) >= 1
    /\ phase \in {"declare", "define", "done"} => scope_stack = << <<>> >>
    /\ phase = "body" => Len(scope_stack) = 2
    /\ \A v \in BoundNames : lookup_variable(scope_stack, v) = Innermost(scope_stack, v)
    /\ phase = "declare" => \A ss \in ScopeStacks : lookup_variable(ss, "x") = Innermost(ss, "x")
    /\ phase \in {"body", "error"}
          => \A v \in BoundNames :
                lookup_variable(scope_stack, v) # NoSlot
                   => lookup_variable(scope_stack, v).func = func_defs[idx].identifier

\* the second function reads a name the first one declared
C25_Witness ==
    /\ phase = "error"
    /\ idx = 2
    /\ err = ErrUndefinedVariable
    /\ "x" \in const_variables
    /\ Len(scope_stack) = 2
    /\ lookup_variable(scope_stack, "x") = NoSlot

\* a handler part that ran to its end without raising
LoopEntered ==
    /\ phase = "body"
    /\ err' = ""
    /\ \/ node'.kind = "WhileStmtNode" /\ node'.operator = "condition"
       \/ node'.kind = "ForStmtNode" /\ node'.operator = "init"
LoopLeft ==
    /\ phase = "body"
    /\ err' = ""
    /\ \/ node'.kind = "WhileStmtNode" /\ node'.operator = "body"
       \/ node'.kind = "ForStmtNode" /\ node'.operator = "update"

\* C26: a while or for statement pushes one pair of loop targets before its
\* condition and pops that pair after its body (for: after its update);
\* no other handler that returns changes the stack, so a loop lowered without
\* error leaves the stack as it found it; the stack is empty when the lowering of a function
\* body begins and when it ends, and its depth is the number of loops being
\* lowered.
C26_LoopStackBalanced ==
    [][/\ LoopEntered
            => /\ Len(loop_stack') = Len(loop_stack) + 1
               /\ SubSeq(loop_stack', 1, Len(loop_stack)) = loop_stack
               /\ frames' = Append(frames, frames'[Len(frames')])
               /\ loop_stack'[Len(loop_stack')] = OpenLoops(<<frames'[Len(frames')]>>)[1]
       /\ LoopLeft
            => /\ loop_stack # <<>>
               /\ loop_stack[Len(loop_stack)] = OpenLoops(<<Top>>)[1]
               /\ loop_stack' = SubSeq(loop_stack, 1, Len(loop_stack) - 1)
       /\ (err' = "" /\ ~LoopEntered /\ ~LoopLeft) => loop_stack' = loop_stack
       /\ (phase = "define" \/ phase' \in {"define", "done"}) => loop_stack' = <<>>
       /\ phase' = "body" => Len(loop_stack') = Len(OpenLoops(frames'))]_vars

\* the inner of two nested loops has been left: the outer pair remains
C26_Witness ==
    /\ phase = "body"
    /\ err = ""
    /\ node.kind = "WhileStmtNode"
    /\ node.operator = "body"
    /\ Len(frames) = 1
    /\ Top.kind = "while"
    /\ loop_stack = <<<<Top.loop_condition, Top.loop_exit>>>>

\* a declaration of a name the current scope does not bind is visited
DeclarationVisited ==
    /\ phase = "body"
    /\ node'.kind = "DeclarationStmtNode"
    /\ node'.identifier \notin DOMAIN TopScope

\* the IR type of the value an initializer produces
ValueType(e) == IF e.kind = "CallExprNode" THEN functions[e.value].ret ELSE OperandType(e)

\* the slot type of a declaration without initializer, by type tag
TagType(tag) ==
    CASE tag = "int" -> I32
      [] tag = "float" -> DOUBLE
      [] tag = "string" -> I8PTR
      [] tag = "bool" -> I1
      [] OTHER -> I32

\* C27: a declaration whose initializer produces an i1, double, i8* or i32
\* value allocates a slot of that type whatever its type tag is, stores the
\* value into it, and adds the name to the const set exactly when it is
\* const; a declaration without initializer allocates a slot of the type its
\* tag stands for (i32 for a tag that is none of int, float, string, bool),
\* stores nothing and leaves the const set alone.
C27_DeclarationSlot ==
    [][DeclarationVisited
        => /\ (node'.val # NoExpr /\ ValueType(node'.val) \in {I1, DOUBLE, I8PTR, I32})
                => /\ err' = ""
                   /\ TopScope'[node'.identifier].type = ValueType(node'.val)
                   /\ Len(emitted') >= 2
                   /\ emitted'[Len(emitted') - 1] =
                         Instr("alloca", "", ValueType(node'.val), "")
                   /\ emitted'[Len(emitted')] =
                         Instr("store", "", ValueType(node'.val), ValueType(node'.val))
                   /\ const_variables' =
                         const_variables \cup (IF node'.is_const THEN {node'.identifier} ELSE {})
           /\ node'.val = NoExpr
                => /\ err' = ""
                   /\ TopScope'[node'.identifier].type = TagType(node'.type)
                   /\ emitted' = <<Instr("alloca", "", TagType(node'.type), "")>>
                   /\ const_variables' = const_variables]_vars

\* a const declared int and initialized with a float literal
C27_Witness ==
    /\ phase = "body"
    /\ node.kind = "DeclarationStmtNode"
    /\ node.identifier = "x"
    /\ node.type = "int"
    /\ node.val = ValueNode("float")
    /\ node.is_const
    /\ err = ""
    /\ TopScope["x"].type = DOUBLE
    /\ "x" \in const_variables

\* the parameters of the function being lowered
Params == func_defs[idx].params
ParamIndex(name) == {i \in 1..Len(Params) : Params[i].name = name}
IsParam(name) == ParamIndex(name) # {}

\* the IR type a parameter's type tag stands for
MappedType(tag) ==
    CASE tag = "int" -> I32
      [] tag = "float" -> DOUBLE
      [] tag = "bool" -> I1
      [] tag = "string" -> I8PTR

\* the instructions that allocate and fill the slots of parameters i..n
RECURSIVE ParamSlots(_, _)
ParamSlots(ps, i) ==
    IF i > Len(ps) THEN <<>>
    ELSE <<Instr("alloca", "", MappedType(ps[i].type), ""),
           Instr("store", "", MappedType(ps[i].type), MappedType(ps[i].type))>>
         \o ParamSlots(ps, i + 1)

\* C28: when the first statement of a body is about to be lowered, the scope
\* pushed for the function binds exactly its parameters, each to a slot of
\* the type its tag is mapped to, allocated and filled with the incoming
\* argument by one alloca and one store per parameter; throughout the body an
\* identifier that names a parameter is a load from a slot of that type, and
\* a declaration of a parameter's name is rejected as a redeclaration.
C28_ParameterSlots ==
    phase \in {"body", "error"} /\ Len(scope_stack) = 2
        => /\ \A i \in 1..Len(Params) :
                /\ Params[i].name \in DOMAIN TopScope
                /\ TopScope[Params[i].name].type = MappedType(Params[i].type)
                /\ TopScope[Params[i].name].decl = "param"
           /\ node.kind = "FuncDefNode"
                => /\ DOMAIN TopScope = {Params[i].name : i \in 1..Len(Params)}
                   /\ emitted = ParamSlots(Params, 1)
                   /\ scope_stack[1] = <<>>
           /\ (node.kind = "AssignmentStmtNode" /\ node.expr.kind = "IdentifierExprNode"
                 /\ IsParam(node.expr.value) /\ emitted # <<>>)
                => \E i \in ParamIndex(node.expr.value) :
                      emitted[1] = Instr("load", "", MappedType(Params[i].type), "")
           /\ (node.kind = "AssignmentStmtNode" /\ node.expr.kind = "IdentifierExprNode"
                 /\ IsParam(node.expr.value) /\ err = "")
                => emitted # <<>>
           /\ (node.kind = "DeclarationStmtNode" /\ IsParam(node.identifier))
                => err = ErrRedeclared /\ emitted = <<>>

\* a local declaration of the float parameter's name
C28_Witness ==
    /\ phase = "error"
    /\ err = ErrRedeclared
    /\ node.kind = "DeclarationStmtNode"
    /\ node.identifier = "n"
    /\ Len(Params) = 2
    /\ TopScope["n"] = Slot(DOUBLE, "param", "v")

\* block b holds a ret after the step and did not before it
RetAppears(b) ==
    /\ blocks'[b].term # <<>>
    /\ blocks'[b].term[1].op = "ret"
    /\ b \in 1..Len(blocks) => blocks[b].term = <<>>

\* C29: a ret enters a block only when a return statement is lowered, and
\* then it enters the block the builder stands in; _define_function itself
\* adds no instruction after the body, so a block left open by the body stays
\* without a ret.
C29_NoImplicitReturn ==
    [][/\ \A b \in 1..Len(blocks') :
            RetAppears(b)
                => /\ node'.kind = "ReturnStmtNode"
                   /\ phase = "body"
                   /\ b = cur
                   /\ cur' = cur
                   /\ emitted'[Len(emitted')] = Instr("ret", "", "", "")
       /\ (phase = "body" /\ node'.kind = "BlockNode")
            => blocks' = blocks /\ emitted' = <<>>]_vars

\* the program is lowered: one path of a function returns, another ends
\* in a block without terminator
C29_Witness ==
    /\ phase = "done"
    /\ err = ""
    /\ \E a, b \in 1..Len(blocks) :
          /\ blocks[a].func = blocks[b].func
          /\ blocks[a].term = <<Term("ret", <<>>)>>
          /\ blocks[b].term = <<>>

StoringKinds ==
    {"DeclarationStmtNode", "AssignmentStmtNode", "CompoundAssignStmtNode",
     "IncrementStmtNode", "DecrementStmtNode"}
Stores == SelectSeq(emitted, LAMBDA i : i.op = "store")

\* C30: a store inserted for a declaration, an assignment, a compound
\* assignment, an increment or a decrement writes a value of the type of the
\* slot of the variable the statement names; an assignment or compound
\* assignment whose right-hand side is of another type than the slot raises
\* and inserts no store.
C30_StoresMatchSlot ==
    (phase \in {"body", "error"} /\ node.kind \in StoringKinds)
        => /\ Len(Stores) <= 1
           /\ \A i \in 1..Len(Stores) :
                /\ Stores[i].lt = Stores[i].rt
                /\ Stores[i].rt = lookup_variable(scope_stack, node.identifier).type
           /\ (node.kind \in {"AssignmentStmtNode", "CompoundAssignStmtNode"}
                 /\ lookup_variable(scope_stack, node.identifier) # NoSlot
                 /\ OperandType(node.expr) # lookup_variable(scope_stack, node.identifier).type)
                => err # "" /\ Stores = <<>>

\* a float literal assigned to an i32 variable
C30_Witness ==
    /\ phase = "error"
    /\ node.kind = "AssignmentStmtNode"
    /\ node.expr = ValueNode("float")
    /\ lookup_variable(scope_stack, node.identifier).type = I32
    /\ err = ErrStoreMismatch
    /\ Stores = <<>>

====
